---- MODULE Spec2Model ----
(***************************************************************************)
(* PocketLLM backend: the prompt cache (services/cache_service.py), the    *)
(* inference service that reads and fills it (services/llm_service.py),    *)
(* the conversation store (services/session_service.py), the session-      *)
(* aware cache key and the trimming of a history                           *)
(* (utils/prompt_builder.py) and the chat endpoints                        *)
(* (routers/chat_router.py).                                               *)
(*                                                                         *)
(* The endpoints are coroutines of one event loop and the services they    *)
(* call are synchronous, so a request is one step, except a streamed       *)
(* response, which is one step per event it sends and which the client    *)
(* may leave at any of them.  In a stream record, `raised` and             *)
(* `n_generate` are history fields: where the engine raised and how often  *)
(* generate was called.  uuid4() is a counter                              *)
(* of values never drawn before.  A row of table messages is deleted with  *)
(* its session, and rows are read in insertion order.  `writer` is a       *)
(* history variable that no operation reads.                               *)
(*                                                                         *)
(* Time is a discrete clock `now` (datetime.utcnow()).  Redis is modelled  *)
(* as an ideal TTL store: a key written by SETEX at time t with ttl s is   *)
(* visible while now < t + s and is gone afterwards; any single Redis call *)
(* may raise (connection lost, timeout).  sha256 is taken to be injective, *)
(* so a cache key is the canonical JSON text it hashes, kept as a tuple.   *)
(* Every cache entry carries, next to the (value, expiry) the code keeps,  *)
(* a history field `by`: the prompt and keyword arguments of the set call  *)
(* that wrote it.  No operation reads it.                                  *)
(***************************************************************************)
EXTENDS Integers, Sequences, FiniteSets, TLC

VARIABLES
    enabled,        \* CacheManager.enabled
    use_redis,      \* CacheManager.use_redis (redis_client is set iff use_redis)
    ttl,            \* CacheManager.ttl
    redis_db,       \* the Redis database: cache key -> [value, expiry, by]
    memory_cache,   \* CacheManager.memory_cache: cache key -> [value, expiry, by]
    hits,           \* CacheManager.hits
    misses,         \* CacheManager.misses
    now,            \* the clock
    model_loaded,   \* LLMEngine.model_loaded
    ret,            \* the last call made and what it returned
    ngets,          \* number of CacheManager.get calls made with caching enabled
    ncalls,         \* number of calls made so far
    sessions,       \* table sessions: session_id -> [user_id, created_at, updated_at]
    messages,       \* table messages: the rows, in insertion order
    nuuid,          \* number of uuid4() values drawn so far
    stream,         \* the streamed response in flight, if any
    writer          \* history: <<backend, cache key>> -> the <<user, session>>
                    \* of the chat turn that wrote the entry

vars == <<enabled, use_redis, ttl, redis_db, memory_cache, hits, misses, now,
          model_loaded, ret, ngets, ncalls, sessions, messages, nuuid, stream,
          writer>>

\* the cache manager and the engine
cvars == <<enabled, use_redis, ttl, redis_db, memory_cache, hits, misses,
           model_loaded, ngets>>

\* the database and the streamed response
svars == <<sessions, messages, nuuid, stream, writer>>

-----------------------------------------------------------------------------
(* Bounds of the model *)

MaxCalls == 3      \* calls made on the cache
MaxInfers == 2     \* calls of infer
MaxTime == 3       \* clock horizon
MaxTtl == 2        \* largest configured TTL
MaxCount == 7      \* largest counter value get_stats is applied to
MaxLen == 2        \* longest text build_cache_key is applied to
MaxStoreCalls == 4 \* calls made on the session service
MaxChats == 2      \* requests made of the chat router
MaxHistory == 3    \* messages of a history given to trim_conversation
MaxBudget == 3     \* largest token budget given to trim_conversation

(* settings.MODEL_TEMPERATURE (0.0, in tenths) and settings.MODEL_MAX_TOKENS *)
MODEL_TEMPERATURE == 0
MODEL_MAX_TOKENS == 1024

-----------------------------------------------------------------------------
(* Values *)

\* Python's None where a text is expected
None == "None"

\* an Optional[float] / Optional[int] argument: << >> is None, <<x>> is x
NoParam == << >>

\* response texts; "" is the empty text, which Python takes as false
Values == {"", "a", "b"}

\* the keyword arguments inference passes to get/set: both always present
Kwargs(temperature, max_tokens) ==
    [n \in {"temperature", "max_tokens"} |->
        IF n = "temperature" THEN temperature ELSE max_tokens]

\* the requests made of the cache directly: two prompts
CacheRequests ==
    { [prompt |-> "p1", kwargs |-> Kwargs(NoParam, NoParam)],
      [prompt |-> "p2", kwargs |-> Kwargs(NoParam, NoParam)] }

\* the requests made of infer: a base request and one that differs from it
\* in the prompt, one in the temperature (0.7, in tenths), one in max_tokens
Requests ==
    CacheRequests \cup
    { [prompt |-> "p1", kwargs |-> Kwargs(<<7>>, NoParam)],
      [prompt |-> "p1", kwargs |-> Kwargs(NoParam, <<64>>)] }

\* the `by` of no entry
NoBy == << >>

\* the empty dict
EmptyDict == [k \in {} |-> None]

\* d with d[k] = e
DictPut(d, k, e) == [x \in DOMAIN d \cup {k} |-> IF x = k THEN e ELSE d[x]]

\* d without the keys in S
DictDel(d, S) == [x \in DOMAIN d \ S |-> d[x]]

\* Python truth of an Optional[str]
Truthy(v) == v # None /\ v # ""

-----------------------------------------------------------------------------
(* CacheManager *)

\* kwargs.get(name, default)
KwGet(kwargs, name, default) ==
    IF name \in DOMAIN kwargs THEN kwargs[name] ELSE default

\* _generate_cache_key with a fault: the temperature is left out of the key
_generate_cache_key_NoTemperature(prompt, kwargs) ==
    << "llm:", KwGet(kwargs, "max_tokens", <<MODEL_MAX_TOKENS>>), prompt >>

\* f"llm:{sha256(json.dumps({prompt, temperature, max_tokens}, sort_keys=True))}"
_generate_cache_key(prompt, kwargs) ==
    << "llm:",
       KwGet(kwargs, "max_tokens", <<MODEL_MAX_TOKENS>>),
       prompt,
       KwGet(kwargs, "temperature", <<MODEL_TEMPERATURE>>) >>

\* _clean_expired_entries with a fault: nothing is removed
_clean_expired_entries_KeepsAll(mc, t) == mc

\* memory_cache without the entries whose expiry < now
_clean_expired_entries(mc, t) ==
    DictDel(mc, {k \in DOMAIN mc : mc[k].expiry < t})

\* Redis drops a key when its TTL has elapsed
RedisExpire(db, t) == DictDel(db, {k \in DOMAIN db : db[k].expiry <= t})

\* what a call of CacheManager.get gives: the value returned, the `by` of the
\* entry it came from, the memory cache and the counters afterwards, and
\* whether the call raised to its caller
GetResult(v, b, mc, h, m, e) ==
    [value |-> v, by |-> b, memory_cache |-> mc, hits |-> h, misses |-> m,
     exc |-> e]

\* get, lines 83-89: redis_client.get(cache_key) answered
RedisLookup(mc, h, m, cache_key) ==
    LET live         == RedisExpire(redis_db, now)
        cached_value == IF cache_key \in DOMAIN live
                        THEN live[cache_key].value ELSE None
    IN  IF Truthy(cached_value)
        THEN GetResult(cached_value, live[cache_key].by, mc, h + 1, m, FALSE)
        ELSE GetResult(None, NoBy, mc, h, m + 1, FALSE)

\* the in-memory lookup with a fault: the expiry is not looked at
MemoryLookup_ServesExpired(mc, h, m, cache_key) ==
    IF cache_key \in DOMAIN mc
    THEN GetResult(mc[cache_key].value, mc[cache_key].by, mc, h + 1, m, FALSE)
    ELSE GetResult(None, NoBy, mc, h, m + 1, FALSE)

\* get, lines 94-106: the in-memory cache
MemoryLookup(mc, h, m, cache_key) ==
    LET cleaned == _clean_expired_entries(mc, now)
    IN  IF cache_key \in DOMAIN cleaned
        THEN IF cleaned[cache_key].expiry > now
             THEN GetResult(cleaned[cache_key].value, cleaned[cache_key].by,
                            cleaned, h + 1, m, FALSE)
             ELSE GetResult(None, NoBy, DictDel(cleaned, {cache_key}),
                            h, m + 1, FALSE)
        ELSE GetResult(None, NoBy, cleaned, h, m + 1, FALSE)

\* CacheManager.get with a fault: a raising primary is counted as a miss
\* before the fallback is looked at
CacheGet_CountsFailure(mc, h, m, prompt, kwargs, raises) ==
    LET cache_key == _generate_cache_key(prompt, kwargs)
    IN  IF ~enabled THEN GetResult(None, NoBy, mc, h, m, FALSE)
        ELSE IF use_redis /\ ~raises THEN RedisLookup(mc, h, m, cache_key)
        ELSE IF use_redis THEN MemoryLookup(mc, h, m + 1, cache_key)
        ELSE MemoryLookup(mc, h, m, cache_key)

\* CacheManager.get with a fault: a primary that answers absent is followed
\* by a look at the fallback
CacheGet_FallThroughOnMiss(mc, h, m, prompt, kwargs, raises) ==
    LET cache_key == _generate_cache_key(prompt, kwargs)
        primary   == RedisLookup(mc, h, m, cache_key)
    IN  IF ~enabled THEN GetResult(None, NoBy, mc, h, m, FALSE)
        ELSE IF use_redis /\ ~raises /\ primary.value # None THEN primary
        ELSE MemoryLookup(mc, h, m, cache_key)

\* CacheManager.get with a fault: a raising primary ends the call as a miss
CacheGet_NoFallback(mc, h, m, prompt, kwargs, raises) ==
    LET cache_key == _generate_cache_key(prompt, kwargs)
    IN  IF ~enabled THEN GetResult(None, NoBy, mc, h, m, FALSE)
        ELSE IF use_redis /\ ~raises THEN RedisLookup(mc, h, m, cache_key)
        ELSE IF use_redis THEN GetResult(None, NoBy, mc, h, m + 1, FALSE)
        ELSE MemoryLookup(mc, h, m, cache_key)

\* CacheManager.get on memory cache mc and counters h, m; `raises` says whether
\* the Redis call raises
CacheGet(mc, h, m, prompt, kwargs, raises) ==
    LET cache_key == _generate_cache_key(prompt, kwargs)
    IN  IF ~enabled THEN GetResult(None, NoBy, mc, h, m, FALSE)
        ELSE IF use_redis /\ ~raises THEN RedisLookup(mc, h, m, cache_key)
        ELSE MemoryLookup(mc, h, m, cache_key)

\* what a call of CacheManager.set gives: the flag returned, the Redis
\* database and the memory cache afterwards, whether the call raised
SetResult(ok, db, mc, e) ==
    [ok |-> ok, redis_db |-> db, memory_cache |-> mc, exc |-> e]

\* the entry a set call files: (response, expiry), and its history field
Entry(prompt, response, kwargs, expiry) ==
    [value |-> response, expiry |-> expiry, by |-> <<prompt, kwargs>>]

\* CacheManager.set with a fault: the entry of a key that is there keeps its
\* expiry
CacheSet_KeepsExpiry(db, mc, prompt, response, kwargs, raises) ==
    LET cache_key == _generate_cache_key(prompt, kwargs)
        Kept(b)   == Entry(prompt, response, kwargs,
                           IF cache_key \in DOMAIN b THEN b[cache_key].expiry
                           ELSE now + ttl)
    IN  IF ~enabled THEN SetResult(FALSE, db, mc, FALSE)
        ELSE IF use_redis /\ ~raises
        THEN SetResult(TRUE, DictPut(db, cache_key, Kept(db)), mc, FALSE)
        ELSE SetResult(TRUE, db, DictPut(mc, cache_key, Kept(mc)), FALSE)

\* CacheManager.set with a fault: the ttl is not added to the expiry
CacheSet_NoTtl(db, mc, prompt, response, kwargs, raises) ==
    LET cache_key == _generate_cache_key(prompt, kwargs)
        e         == Entry(prompt, response, kwargs, now)
    IN  IF ~enabled THEN SetResult(FALSE, db, mc, FALSE)
        ELSE IF use_redis /\ ~raises
        THEN SetResult(TRUE, DictPut(db, cache_key, e), mc, FALSE)
        ELSE SetResult(TRUE, db, DictPut(mc, cache_key, e), FALSE)

\* CacheManager.set with a fault: a raising primary ends the call with False
CacheSet_FalseOnError(db, mc, prompt, response, kwargs, raises) ==
    LET cache_key == _generate_cache_key(prompt, kwargs)
        e         == Entry(prompt, response, kwargs, now + ttl)
    IN  IF ~enabled THEN SetResult(FALSE, db, mc, FALSE)
        ELSE IF use_redis /\ ~raises
        THEN SetResult(TRUE, DictPut(db, cache_key, e), mc, FALSE)
        ELSE IF use_redis THEN SetResult(FALSE, db, mc, FALSE)
        ELSE SetResult(TRUE, db, DictPut(mc, cache_key, e), FALSE)

\* CacheManager.set with a fault: the exception of a raising primary is not
\* caught
CacheSet_Raises(db, mc, prompt, response, kwargs, raises) ==
    LET cache_key == _generate_cache_key(prompt, kwargs)
        e         == Entry(prompt, response, kwargs, now + ttl)
    IN  IF ~enabled THEN SetResult(FALSE, db, mc, FALSE)
        ELSE IF use_redis /\ ~raises
        THEN SetResult(TRUE, DictPut(db, cache_key, e), mc, FALSE)
        ELSE IF use_redis THEN SetResult(FALSE, db, mc, TRUE)
        ELSE SetResult(TRUE, db, DictPut(mc, cache_key, e), FALSE)

\* CacheManager.set on Redis database db and memory cache mc; `raises` says
\* whether the Redis call raises
CacheSet(db, mc, prompt, response, kwargs, raises) ==
    LET cache_key == _generate_cache_key(prompt, kwargs)
        e         == Entry(prompt, response, kwargs, now + ttl)
    IN  IF ~enabled THEN SetResult(FALSE, db, mc, FALSE)
        ELSE IF use_redis /\ ~raises
        THEN SetResult(TRUE, DictPut(db, cache_key, e), mc, FALSE)
        ELSE SetResult(TRUE, db, DictPut(mc, cache_key, e), FALSE)

\* the hit rate with a fault: cut off after two decimals, not rounded
HitRate_Truncates(h, total) ==
    IF total > 0 THEN (h * 10000) \div total ELSE 0

\* round(hits / total * 100, 2) if total > 0 else 0, in hundredths of a
\* percent (round half to even)
HitRate(h, total) ==
    IF total > 0
    THEN LET q == (h * 10000) \div total
             r == (h * 10000) % total
         IN  IF 2 * r > total \/ (2 * r = total /\ q % 2 = 1) THEN q + 1 ELSE q
    ELSE 0

\* CacheManager.get_stats: the dict returned (entries is <<n>>, or << >> when
\* the key is left out) and the memory cache afterwards
CacheStats(raises) ==
    LET total   == hits + misses
        cleaned == _clean_expired_entries(memory_cache, now)
        stats   == [enabled |-> enabled,
                    backend |-> IF use_redis THEN "redis" ELSE "in-memory",
                    hits |-> hits, misses |-> misses, total_requests |-> total,
                    hit_rate |-> HitRate(hits, total)]
    IN  IF use_redis
        THEN [memory_cache |-> memory_cache,
              stats |-> stats @@
                  [entries |-> IF raises THEN << >>
                               ELSE <<Cardinality(DOMAIN RedisExpire(redis_db, now))>>]]
        ELSE [memory_cache |-> cleaned,
              stats |-> stats @@ [entries |-> <<Cardinality(DOMAIN cleaned)>>]]

-----------------------------------------------------------------------------
(* Text *)

\* the characters str.strip() and str.split() take for whitespace
Whitespace == {" ", "\n", "\t"}

\* t[i-1:i], the i-th character of t
Char(t, i) == SubSeq(t, i, i)

\* str.lstrip(): leading whitespace removed
RECURSIVE LStrip(_)
LStrip(t) ==
    IF t = "" THEN ""
    ELSE IF Char(t, 1) \in Whitespace THEN LStrip(SubSeq(t, 2, Len(t)))
    ELSE t

\* str.strip(): leading and trailing whitespace removed
RECURSIVE Strip(_)
Strip(t) ==
    IF t = "" THEN ""
    ELSE IF Char(t, 1) \in Whitespace THEN Strip(SubSeq(t, 2, Len(t)))
    ELSE IF Char(t, Len(t)) \in Whitespace THEN Strip(SubSeq(t, 1, Len(t) - 1))
    ELSE t

\* t.startswith(p)
StartsWith(t, p) == Len(t) >= Len(p) /\ SubSeq(t, 1, Len(p)) = p

\* the positions of t at which p occurs
Occurrences(t, p) ==
    {i \in 1..(Len(t) - Len(p) + 1) : SubSeq(t, i, i + Len(p) - 1) = p}

\* p in t
Contains(t, p) == Occurrences(t, p) # {}

\* t.split(p)[-1]
AfterLast(t, p) ==
    LET occ == Occurrences(t, p)
    IN  IF occ = {} THEN t
        ELSE SubSeq(t, (CHOOSE i \in occ : \A j \in occ : i >= j) + Len(p), Len(t))

\* t.split(p)[0]
BeforeFirst(t, p) ==
    LET occ == Occurrences(t, p)
    IN  IF occ = {} THEN t
        ELSE SubSeq(t, 1, (CHOOSE i \in occ : \A j \in occ : i <= j) - 1)

\* len(t.split()): the number of whitespace-separated words of t
WordCount(t) ==
    Cardinality({i \in 1..Len(t) :
                    /\ Char(t, i) \notin Whitespace
                    /\ (i = 1 \/ Char(t, i - 1) \in Whitespace)})

\* t.split(' '): the pieces of t between single blanks
RECURSIVE SplitBlank(_)
SplitBlank(t) ==
    IF ~Contains(t, " ") THEN <<t>>
    ELSE <<BeforeFirst(t, " ")>>
            \o SplitBlank(SubSeq(t, Len(BeforeFirst(t, " ")) + 2, Len(t)))

\* t[:n]
Prefix(t, n) == SubSeq(t, 1, IF Len(t) < n THEN Len(t) ELSE n)

-----------------------------------------------------------------------------
(* LLMEngine *)

\* the text generate returns when the model call raises
ErrorText == "Error generating response: e"

\* _clean_response(text): the first dialogue prefix that matches is cut off
Prefixes == <<"AI:", "AI :", "Assistant:", "Assistant :", "A:", "A :",
              "User:", "User :">>

_clean_response(text) ==
    LET matching == {i \in 1..Len(Prefixes) : StartsWith(text, Prefixes[i])}
    IN  IF matching = {} THEN text
        ELSE LET first == CHOOSE i \in matching : \A j \in matching : i <= j
             IN  LStrip(SubSeq(text, Len(Prefixes[first]) + 1, Len(text)))

\* _mock_generate(prompt, stream=False): the text names the last user
\* message found in the prompt, cut to 50 characters
_mock_generate(prompt) ==
    LET last_user_msg == Strip(BeforeFirst(AfterLast(prompt, "<|user|>"), "</s>"))
        user_query == IF Contains(prompt, "<|user|>") /\ last_user_msg # ""
                      THEN Prefix(last_user_msg, 50) ELSE "your question"
    IN  "[MOCK MODE] You asked: '" \o user_query \o
        "'. The actual LLM model is not loaded. To use a real model, please download a GGUF file to ./models/tinyllama-1.1b-chat-q4.gguf"

\* _stream_output(output): what it yields for the chunk texts of the model,
\* with `buffer` and `first_token` as they stand
RECURSIVE _stream_output(_, _, _)
_stream_output(chunks, buffer, first_token) ==
    IF chunks = << >> THEN << >>
    ELSE LET token == Head(chunks)
         IN  IF token = "" THEN _stream_output(Tail(chunks), buffer, first_token)
             ELSE IF first_token
             THEN LET cleaned == _clean_response(buffer \o token)
                  IN  IF cleaned # ""
                      THEN <<cleaned>> \o _stream_output(Tail(chunks), "", FALSE)
                      ELSE _stream_output(Tail(chunks), cleaned, TRUE)
             ELSE <<token>> \o _stream_output(Tail(chunks), buffer \o token, FALSE)

\* word_generator with a fault: no blank is put in front of a word
MockWords_NoBlank(prompt) == SplitBlank(_mock_generate(prompt))

\* word_generator of _mock_generate(prompt, stream=True): the words of the
\* mock text, all but the first with a blank in front
MockWords(prompt) ==
    LET words == SplitBlank(_mock_generate(prompt))
    IN  [i \in 1..Len(words) |-> IF i = 1 THEN words[i] ELSE " " \o words[i]]

\* the characters of a text, which is what iterating over a str gives
CharsOf(t) == [i \in 1..Len(t) |-> Char(t, i)]

\* the chunk texts a loaded model streams, and whether it raises after them
ModelStreams ==
    { [chunks |-> <<"a", " b">>, fails |-> FALSE],
      [chunks |-> <<"AI:", " a">>, fails |-> FALSE],
      [chunks |-> <<"a">>, fails |-> TRUE],
      [chunks |-> << >>, fails |-> FALSE] }

\* what LLMEngine.generate(prompt, stream=True) may return, as the tokens the
\* iteration yields and whether it then raises: the mock words when no model
\* is loaded; else the error text (a str, iterated by character) when the
\* model call raises, or the output of _stream_output.  `raised` tells where
\* the model raised: "none", "creation" (the call) or "fragment" (a chunk).
GenerateStream(prompt) ==
    IF ~model_loaded
    THEN {[tokens |-> MockWords(prompt), fails |-> FALSE, raised |-> "none"]}
    ELSE {[tokens |-> CharsOf(ErrorText), fails |-> FALSE, raised |-> "creation"]}
         \cup {[tokens |-> _stream_output(m.chunks, "", TRUE), fails |-> m.fails,
                 raised |-> IF m.fails THEN "fragment" ELSE "none"] :
                  m \in ModelStreams}

\* what LLMEngine.generate(prompt, stream=False) may return: the mock text
\* when no model is loaded, else a text of the model (empty or not) or the
\* error text
Generate(prompt) ==
    IF ~model_loaded THEN {_mock_generate(prompt)} ELSE {"", "a", ErrorText}

-----------------------------------------------------------------------------
(* SessionService *)

\* uuid4() after n values have been drawn: a value never drawn before
Uuid4(n) == n + 1

\* no exception, and the two ValueErrors the service raises
NoExc == << >>
SessionNotFound == <<"ValueError", "Session not found">>
NotOwner == <<"ValueError", "User does not own this session">>

\* what a call on the database gives: the two tables and the uuid count
\* afterwards, the value returned and the exception raised
DbResult(ss, ms, n, value, exc) ==
    [sessions |-> ss, messages |-> ms, nuuid |-> n, value |-> value, exc |-> exc]

\* the rows of table messages that belong to session_id, in the order the
\* database returns them: insertion order
SessionMessages(ms, session_id) ==
    SelectSeq(ms, LAMBDA msg : msg.session_id = session_id)

\* table messages once the session's row is deleted: its messages go with it
DeleteCascade(ms, session_id) ==
    SelectSeq(ms, LAMBDA msg : msg.session_id # session_id)

\* the ChatHistory built from the row of session_id
ChatHistory(ss, ms, session_id) ==
    [session_id |-> session_id, user_id |-> ss[session_id].user_id,
     messages |-> SessionMessages(ms, session_id),
     created_at |-> ss[session_id].created_at,
     updated_at |-> ss[session_id].updated_at]

\* the elements of a set of ids as a sequence, in increasing order
RECURSIVE InOrder(_)
InOrder(S) ==
    IF S = {} THEN << >>
    ELSE LET least == CHOOSE x \in S : \A y \in S : x <= y
         IN  <<least>> \o InOrder(S \ {least})

\* create_session with a fault: the row is filed without the user's id
create_session_Unowned(ss, ms, n, user_id) ==
    LET session_id == Uuid4(n)
    IN  DbResult(DictPut(ss, session_id,
                         [user_id |-> None, created_at |-> now,
                          updated_at |-> now]),
                 ms, n + 1, session_id, NoExc)

\* SessionService.create_session(user_id)
create_session(ss, ms, n, user_id) ==
    LET session_id == Uuid4(n)
    IN  DbResult(DictPut(ss, session_id,
                         [user_id |-> user_id, created_at |-> now,
                          updated_at |-> now]),
                 ms, n + 1, session_id, NoExc)

\* SessionService.get_session(session_id): <<ChatHistory>>, or << >> for None
get_session(ss, ms, session_id) ==
    IF session_id \notin DOMAIN ss THEN << >>
    ELSE <<ChatHistory(ss, ms, session_id)>>

\* SessionService.get_user_sessions(user_id): the user's sessions in the
\* order of the table, which is the order of creation
get_user_sessions(ss, ms, user_id) ==
    LET ids == InOrder({sid \in DOMAIN ss : ss[sid].user_id = user_id})
    IN  [i \in 1..Len(ids) |-> ChatHistory(ss, ms, ids[i])]

\* add_message with a fault: updated_at is not touched
add_message_KeepsUpdatedAt(ss, ms, n, session_id, user_id, role, content, tokens_used) ==
    IF session_id \notin DOMAIN ss
    THEN DbResult(ss, ms, n, << >>, SessionNotFound)
    ELSE IF ss[session_id].user_id # user_id
    THEN DbResult(ss, ms, n, << >>, NotOwner)
    ELSE LET message == [message_id |-> Uuid4(n), session_id |-> session_id,
                         user_id |-> user_id, role |-> role,
                         content |-> content, timestamp |-> now,
                         tokens_used |-> tokens_used]
         IN  DbResult(ss, Append(ms, message), n + 1, <<message>>, NoExc)

\* add_message with a fault: the owner is not compared with the caller
add_message_NoOwnerCheck(ss, ms, n, session_id, user_id, role, content, tokens_used) ==
    IF session_id \notin DOMAIN ss
    THEN DbResult(ss, ms, n, << >>, SessionNotFound)
    ELSE LET message == [message_id |-> Uuid4(n), session_id |-> session_id,
                         user_id |-> user_id, role |-> role,
                         content |-> content, timestamp |-> now,
                         tokens_used |-> tokens_used]
         IN  DbResult([ss EXCEPT ![session_id].updated_at = now],
                      Append(ms, message), n + 1, <<message>>, NoExc)

\* add_message with a fault: the new row is put before the others
add_message_Prepends(ss, ms, n, session_id, user_id, role, content, tokens_used) ==
    IF session_id \notin DOMAIN ss
    THEN DbResult(ss, ms, n, << >>, SessionNotFound)
    ELSE IF ss[session_id].user_id # user_id
    THEN DbResult(ss, ms, n, << >>, NotOwner)
    ELSE LET message == [message_id |-> Uuid4(n), session_id |-> session_id,
                         user_id |-> user_id, role |-> role,
                         content |-> content, timestamp |-> now,
                         tokens_used |-> tokens_used]
         IN  DbResult([ss EXCEPT ![session_id].updated_at = now],
                      <<message>> \o ms, n + 1, <<message>>, NoExc)

\* add_message with a fault: the session is not looked up before the insert
add_message_NoLookup(ss, ms, n, session_id, user_id, role, content, tokens_used) ==
    IF session_id \in DOMAIN ss /\ ss[session_id].user_id # user_id
    THEN DbResult(ss, ms, n, << >>, NotOwner)
    ELSE LET message == [message_id |-> Uuid4(n), session_id |-> session_id,
                         user_id |-> user_id, role |-> role,
                         content |-> content, timestamp |-> now,
                         tokens_used |-> tokens_used]
         IN  DbResult([sid \in DOMAIN ss |->
                          IF sid = session_id
                          THEN [ss[sid] EXCEPT !.updated_at = now] ELSE ss[sid]],
                      Append(ms, message), n + 1, <<message>>, NoExc)

\* SessionService.add_message(session_id, user_id, role, content, tokens_used)
add_message(ss, ms, n, session_id, user_id, role, content, tokens_used) ==
    IF session_id \notin DOMAIN ss
    THEN DbResult(ss, ms, n, << >>, SessionNotFound)
    ELSE IF ss[session_id].user_id # user_id
    THEN DbResult(ss, ms, n, << >>, NotOwner)
    ELSE LET message == [message_id |-> Uuid4(n), session_id |-> session_id,
                         user_id |-> user_id, role |-> role,
                         content |-> content, timestamp |-> now,
                         tokens_used |-> tokens_used]
         IN  DbResult([ss EXCEPT ![session_id].updated_at = now],
                      Append(ms, message), n + 1, <<message>>, NoExc)

\* SessionService.get_session_messages(session_id)
get_session_messages(ms, session_id) == SessionMessages(ms, session_id)

\* delete_session with a fault: the owner is not compared with the caller
delete_session_NoOwnerCheck(ss, ms, n, session_id, user_id) ==
    IF session_id \notin DOMAIN ss
    THEN DbResult(ss, ms, n, FALSE, NoExc)
    ELSE DbResult(DictDel(ss, {session_id}), DeleteCascade(ms, session_id),
                  n, TRUE, NoExc)

\* delete_session with a fault: the rows are filtered by owner, not by id
delete_session_ByOwner(ss, ms, n, session_id, user_id) ==
    IF session_id \notin DOMAIN ss
    THEN DbResult(ss, ms, n, FALSE, NoExc)
    ELSE IF ss[session_id].user_id # user_id
    THEN DbResult(ss, ms, n, << >>, NotOwner)
    ELSE LET gone == {sid \in DOMAIN ss : ss[sid].user_id = user_id}
         IN  DbResult(DictDel(ss, gone),
                      SelectSeq(ms, LAMBDA msg : msg.session_id \notin gone),
                      n, TRUE, NoExc)

\* SessionService.delete_session(session_id, user_id)
delete_session(ss, ms, n, session_id, user_id) ==
    IF session_id \notin DOMAIN ss
    THEN DbResult(ss, ms, n, FALSE, NoExc)
    ELSE IF ss[session_id].user_id # user_id
    THEN DbResult(ss, ms, n, << >>, NotOwner)
    ELSE DbResult(DictDel(ss, {session_id}), DeleteCascade(ms, session_id),
                  n, TRUE, NoExc)

-----------------------------------------------------------------------------
(* utils/prompt_builder.py *)

\* the characters of the texts build_cache_key is applied to
Chars == {" ", "a"}

\* the texts of at most n characters
RECURSIVE TextsUpTo(_)
TextsUpTo(n) ==
    IF n = 0 THEN {""}
    ELSE TextsUpTo(n - 1) \cup {t \o c : t \in TextsUpTo(n - 1), c \in Chars}

Texts == TextsUpTo(MaxLen)

\* build_cache_key with a fault: the session id is left out of the key
build_cache_key_NoSession(user_id, session_id, prompt, prev_response) ==
    << IF prev_response # NoParam /\ prev_response[1] # ""
       THEN <<Strip(prev_response[1])>> ELSE NoParam,
       Strip(prompt), user_id >>

\* build_cache_key(user_id, session_id, prompt, prev_response): json.dumps of
\* the four fields with sort_keys=True, kept as the tuple of the values in key
\* order (prev_response, prompt, session_id, user_id); null is << >>
build_cache_key(user_id, session_id, prompt, prev_response) ==
    << IF prev_response # NoParam /\ prev_response[1] # ""
       THEN <<Strip(prev_response[1])>> ELSE NoParam,
       Strip(prompt), session_id, user_id >>

\* the characters that stand for ideographs of U+4E00..U+9FFF (the strings
\* of the model are ASCII)
Cjk == {"Z"}

\* estimate_tokens(text): two for each ideograph, and one for each
\* whitespace-separated word
estimate_tokens(text) ==
    IF text = "" THEN 0
    ELSE Cardinality({i \in 1..Len(text) : Char(text, i) \in Cjk}) * 2
         + WordCount(text)

\* the default budget of trim_conversation
MAX_HISTORY_TOKENS == 1024

\* the loop of trim_conversation with history[1..i] still to be looked at,
\* `total` tokens kept so far in `trimmed`
RECURSIVE TrimLoop(_, _, _, _, _)
TrimLoop(history, i, max_tokens, total, trimmed) ==
    IF i = 0 THEN trimmed
    ELSE LET tokens == estimate_tokens(history[i].content)
         IN  IF total + tokens > max_tokens THEN trimmed
             ELSE TrimLoop(history, i - 1, max_tokens, total + tokens,
                           <<history[i]>> \o trimmed)

\* trim_conversation(history, max_tokens)
trim_conversation(history, max_tokens) ==
    TrimLoop(history, Len(history), max_tokens, 0, << >>)

\* fmt_chat(role, content)
fmt_chat(role, content) ==
    "<|im_start|>" \o role \o "\n" \o content \o "<|im_end|>\n"

\* the loop of build_prompt with a fault: a message whose stripped content
\* is empty is not skipped
RECURSIVE HistoryChat_KeepsEmpty(_)
HistoryChat_KeepsEmpty(history) ==
    IF history = << >> THEN ""
    ELSE fmt_chat(Head(history).role, Strip(Head(history).content))
         \o HistoryChat_KeepsEmpty(Tail(history))

\* the loop of build_prompt over the history: a message whose stripped
\* content is empty adds nothing
RECURSIVE HistoryChat(_)
HistoryChat(history) ==
    IF history = << >> THEN ""
    ELSE LET content == Strip(Head(history).content)
         IN  (IF content = "" THEN ""
              ELSE fmt_chat(Head(history).role, content))
             \o HistoryChat(Tail(history))

\* build_prompt(history, system_prompt, new_user_prompt)
build_prompt(history, system_prompt, new_user_prompt) ==
    fmt_chat("system", system_prompt)
    \o HistoryChat(history)
    \o fmt_chat("user", Strip(new_user_prompt))
    \o "<|im_start|>assistant\n"

-----------------------------------------------------------------------------
(* routers/chat_router.py *)

\* the system turn every prompt starts with
SystemTurn ==
    "<|system|>\nYou are a helpful assistant. Answer questions directly without using prefixes like 'AI:', 'Assistant:', or 'User:'. Do not generate example dialogues.</s>\n"

\* the turns of the conversation history: user and assistant messages, in
\* order; a message with another role adds nothing
RECURSIVE HistoryTurns(_)
HistoryTurns(history) ==
    IF history = << >> THEN ""
    ELSE (IF Head(history).role = "user"
          THEN "<|user|>\n" \o Head(history).content \o "</s>\n"
          ELSE IF Head(history).role = "assistant"
          THEN "<|assistant|>\n" \o Head(history).content \o "</s>\n"
          ELSE "")
         \o HistoryTurns(Tail(history))

\* formatted_prompt with a fault: the last message of the history, which is
\* the one just appended, is not skipped
FormatPrompt_KeepsLast(conversation_history, prompt) ==
    SystemTurn
    \o HistoryTurns(conversation_history)
    \o "<|user|>\n" \o prompt \o "</s>\n<|assistant|>\n"

\* formatted_prompt: the system turn, conversation_history[:-1], the current
\* user message and the opening of the assistant's turn
FormatPrompt(conversation_history, prompt) ==
    SystemTurn
    \o HistoryTurns(SubSeq(conversation_history, 1, Len(conversation_history) - 1))
    \o "<|user|>\n" \o prompt \o "</s>\n<|assistant|>\n"

\* the request as infer sees it
InferRequest(formatted_prompt, request) ==
    [prompt |-> formatted_prompt,
     kwargs |-> Kwargs(request.temperature, request.max_tokens)]

\* "Create or get session": << >> when the request goes on, else the status
\* and detail of the HTTPException raised
SessionCheck(ss, ms, user, request) ==
    IF request.session_id = NoParam THEN << >>
    ELSE LET session == get_session(ss, ms, request.session_id[1])
         IN  IF session = << >> THEN <<404, "Session not found">>
             ELSE IF session[1].user_id # user
             THEN <<403, "Access denied to this session">>
             ELSE << >>

\* the session of the turn: the one named, or one created for the user
SessionOfTurn(ss, ms, n, user, request) ==
    IF request.session_id = NoParam THEN create_session(ss, ms, n, user)
    ELSE DbResult(ss, ms, n, request.session_id[1], NoExc)

\* the backend a cache call ends up on, given whether the Redis call raises
CacheBackend(raises) == IF use_redis /\ ~raises THEN "redis" ELSE "memory"

-----------------------------------------------------------------------------
(* Operations *)

\* The result record of a call is bound with \E over a one-element set, so
\* that it is computed once per step.

\* whether a Redis call can raise: only when Redis is called at all
MayRaise == IF enabled /\ use_redis THEN BOOLEAN ELSE {FALSE}

\* the ret of no call
NoCall == [op |-> "none"]

\* no response is being streamed
NoStream == [state |-> "none"]

\* build_cache_key(user_id, session_id, prompt, prev_response), called once
BuildCacheKey(user_id, session_id, prompt, prev_response) ==
    /\ ret = NoCall
    /\ ret' = [op |-> "build_cache_key", user_id |-> user_id,
               session_id |-> session_id, prompt |-> prompt,
               prev_response |-> prev_response,
               key |-> build_cache_key(user_id, session_id, prompt, prev_response)]
    /\ UNCHANGED <<cvars, svars, now, ncalls>>

\* trim_conversation(history, max_tokens), called once
TrimConversation(history, max_tokens) ==
    /\ ret = NoCall
    /\ ret' = [op |-> "trim_conversation", messages |-> history,
               max_tokens |-> max_tokens,
               trimmed |-> trim_conversation(history, max_tokens)]
    /\ UNCHANGED <<cvars, svars, now, ncalls>>

\* build_prompt(history, system_prompt, new_user_prompt), called once
BuildPrompt(history, system_prompt, new_user_prompt) ==
    /\ ret = NoCall
    /\ ret' = [op |-> "build_prompt", messages |-> history,
               system_prompt |-> system_prompt,
               new_user_prompt |-> new_user_prompt,
               prompt |-> build_prompt(history, system_prompt, new_user_prompt)]
    /\ UNCHANGED <<cvars, svars, now, ncalls>>

\* SessionService.create_session(user_id)
CreateSession(user_id) ==
    /\ ncalls < MaxStoreCalls
    /\ \E d \in {create_session(sessions, messages, nuuid, user_id)} :
           /\ sessions' = d.sessions
           /\ messages' = d.messages
           /\ nuuid' = d.nuuid
           /\ ret' = [op |-> "create_session", user_id |-> user_id,
                      value |-> d.value, exc |-> d.exc]
    /\ ncalls' = ncalls + 1
    /\ UNCHANGED <<cvars, now, stream, writer>>

\* SessionService.add_message(session_id, user_id, role, content, tokens_used)
AddMessage(session_id, user_id, role, content, tokens_used) ==
    /\ ncalls < MaxStoreCalls
    /\ \E d \in {add_message(sessions, messages, nuuid, session_id, user_id,
                              role, content, tokens_used)} :
           /\ sessions' = d.sessions
           /\ messages' = d.messages
           /\ nuuid' = d.nuuid
           /\ ret' = [op |-> "add_message", session_id |-> session_id,
                      user_id |-> user_id, value |-> d.value, exc |-> d.exc]
    /\ ncalls' = ncalls + 1
    /\ UNCHANGED <<cvars, now, stream, writer>>

\* SessionService.get_session(session_id)
GetSession(session_id) ==
    /\ ncalls < MaxStoreCalls
    /\ ret' = [op |-> "get_session", session_id |-> session_id,
               value |-> get_session(sessions, messages, session_id),
               exc |-> NoExc]
    /\ ncalls' = ncalls + 1
    /\ UNCHANGED <<cvars, svars, now>>

\* SessionService.get_user_sessions(user_id)
GetUserSessions(user_id) ==
    /\ ncalls < MaxStoreCalls
    /\ ret' = [op |-> "get_user_sessions", user_id |-> user_id,
               value |-> get_user_sessions(sessions, messages, user_id),
               exc |-> NoExc]
    /\ ncalls' = ncalls + 1
    /\ UNCHANGED <<cvars, svars, now>>

\* SessionService.get_session_messages(session_id)
GetSessionMessages(session_id) ==
    /\ ncalls < MaxStoreCalls
    /\ ret' = [op |-> "get_session_messages", session_id |-> session_id,
               value |-> get_session_messages(messages, session_id),
               exc |-> NoExc]
    /\ ncalls' = ncalls + 1
    /\ UNCHANGED <<cvars, svars, now>>

\* SessionService.delete_session(session_id, user_id)
DeleteSession(session_id, user_id) ==
    /\ ncalls < MaxStoreCalls
    /\ \E d \in {delete_session(sessions, messages, nuuid, session_id, user_id)} :
           /\ sessions' = d.sessions
           /\ messages' = d.messages
           /\ nuuid' = d.nuuid
           /\ ret' = [op |-> "delete_session", session_id |-> session_id,
                      user_id |-> user_id, value |-> d.value, exc |-> d.exc]
    /\ ncalls' = ncalls + 1
    /\ UNCHANGED <<cvars, now, stream, writer>>

\* CacheManager.get(r.prompt, **r.kwargs)
Get(r, raises) ==
    /\ ncalls < MaxCalls
    /\ \E g \in {CacheGet(memory_cache, hits, misses, r.prompt, r.kwargs, raises)} :
           /\ memory_cache' = g.memory_cache
           /\ hits' = g.hits
           /\ misses' = g.misses
           /\ ret' = [op |-> "get", req |-> r, value |-> g.value, by |-> g.by,
                      primary_failed |-> raises, exc |-> g.exc, at |-> now,
                      hits_before |-> hits, misses_before |-> misses,
                      prior |-> IF ret.op = "set" THEN ret ELSE NoCall]
    /\ ngets' = IF enabled THEN ngets + 1 ELSE ngets
    /\ ncalls' = ncalls + 1
    /\ UNCHANGED svars
    /\ UNCHANGED <<enabled, use_redis, ttl, redis_db, now, model_loaded>>

\* CacheManager.set(r.prompt, response, **r.kwargs)
Set(r, response, raises) ==
    /\ ncalls < MaxCalls
    /\ \E s \in {CacheSet(redis_db, memory_cache, r.prompt, response, r.kwargs, raises)} :
           /\ redis_db' = s.redis_db
           /\ memory_cache' = s.memory_cache
           /\ ret' = [op |-> "set", req |-> r, value |-> response, ok |-> s.ok,
                      primary_failed |-> raises, exc |-> s.exc, at |-> now]
    /\ ncalls' = ncalls + 1
    /\ UNCHANGED svars
    /\ UNCHANGED <<enabled, use_redis, ttl, hits, misses, now, model_loaded, ngets>>

\* CacheManager.flush with a fault: the counters are reset
Flush_ResetsCounters(raises) ==
    /\ ncalls < MaxCalls
    /\ IF ~enabled
       THEN /\ UNCHANGED <<redis_db, memory_cache>>
            /\ ret' = [op |-> "flush", count |-> 0, primary_failed |-> FALSE,
                       hits_before |-> hits, misses_before |-> misses]
       ELSE LET keys  == DOMAIN RedisExpire(redis_db, now)
                count == IF use_redis /\ ~raises THEN Cardinality(keys) ELSE 0
            IN  /\ redis_db' = IF use_redis /\ ~raises
                               THEN DictDel(redis_db, keys) ELSE redis_db
                /\ memory_cache' = EmptyDict
                /\ ret' = [op |-> "flush",
                           count |-> count + Cardinality(DOMAIN memory_cache),
                           primary_failed |-> raises,
                           hits_before |-> hits, misses_before |-> misses]
    /\ ncalls' = ncalls + 1
    /\ hits' = 0 /\ misses' = 0
    /\ UNCHANGED svars
    /\ UNCHANGED <<enabled, use_redis, ttl, now, model_loaded, ngets>>

\* CacheManager.flush with a fault: the keys found in Redis are not deleted
Flush_MemoryOnly(raises) ==
    /\ ncalls < MaxCalls
    /\ IF ~enabled
       THEN /\ UNCHANGED <<redis_db, memory_cache>>
            /\ ret' = [op |-> "flush", count |-> 0, primary_failed |-> FALSE,
                       hits_before |-> hits, misses_before |-> misses]
       ELSE LET keys  == DOMAIN RedisExpire(redis_db, now)
                count == IF use_redis /\ ~raises THEN Cardinality(keys) ELSE 0
            IN  /\ redis_db' = redis_db
                /\ memory_cache' = EmptyDict
                /\ ret' = [op |-> "flush",
                           count |-> count + Cardinality(DOMAIN memory_cache),
                           primary_failed |-> raises,
                           hits_before |-> hits, misses_before |-> misses]
    /\ ncalls' = ncalls + 1
    /\ UNCHANGED svars
    /\ UNCHANGED <<enabled, use_redis, ttl, hits, misses, now, model_loaded, ngets>>

\* CacheManager.flush()
Flush(raises) ==
    /\ ncalls < MaxCalls
    /\ IF ~enabled
       THEN /\ UNCHANGED <<redis_db, memory_cache>>
            /\ ret' = [op |-> "flush", count |-> 0, primary_failed |-> FALSE,
                       hits_before |-> hits, misses_before |-> misses]
       ELSE LET keys  == DOMAIN RedisExpire(redis_db, now)
                count == IF use_redis /\ ~raises THEN Cardinality(keys) ELSE 0
            IN  /\ redis_db' = IF use_redis /\ ~raises
                               THEN DictDel(redis_db, keys) ELSE redis_db
                /\ memory_cache' = EmptyDict
                /\ ret' = [op |-> "flush",
                           count |-> count + Cardinality(DOMAIN memory_cache),
                           primary_failed |-> raises,
                           hits_before |-> hits, misses_before |-> misses]
    /\ ncalls' = ncalls + 1
    /\ UNCHANGED svars
    /\ UNCHANGED <<enabled, use_redis, ttl, hits, misses, now, model_loaded, ngets>>

\* CacheManager.get_stats()
Stats(raises) ==
    /\ ncalls < MaxCalls
    /\ \E s \in {CacheStats(raises)} :
           /\ memory_cache' = s.memory_cache
           /\ ret' = [op |-> "stats", stats |-> s.stats, primary_failed |-> raises]
    /\ ncalls' = ncalls + 1
    /\ UNCHANGED svars
    /\ UNCHANGED <<enabled, use_redis, ttl, redis_db, hits, misses, now,
                   model_loaded, ngets>>

\* the clock advances by one second; Redis expires what is due
Tick ==
    /\ now < MaxTime
    /\ now' = now + 1
    /\ redis_db' = RedisExpire(redis_db, now + 1)
    /\ UNCHANGED svars
    /\ UNCHANGED <<enabled, use_redis, ttl, memory_cache, hits, misses,
                   model_loaded, ret, ngets, ncalls>>

\* ModelInferenceService.infer(r.prompt, **r.kwargs, use_cache) on the cache
\* as it is: what it returns, the calls it made, and the cache afterwards.
\* The cache is read with Redis raising or not (graises), the engine returns
\* `response`, the cache is written with Redis raising or not (sraises).
InferCall(r, use_cache, graises, response, sraises) ==
    LET g == IF use_cache
             THEN CacheGet(memory_cache, hits, misses, r.prompt, r.kwargs, graises)
             ELSE GetResult(None, NoBy, memory_cache, hits, misses, FALSE)
    IN  IF use_cache /\ Truthy(g.value)
        THEN [response |-> g.value, cached |-> TRUE, by |-> g.by,
              n_get |-> 1, n_generate |-> 0, n_set |-> 0, exc |-> g.exc,
              redis_db |-> redis_db, memory_cache |-> g.memory_cache,
              hits |-> g.hits, misses |-> g.misses]
        ELSE LET s == IF use_cache
                      THEN CacheSet(redis_db, g.memory_cache, r.prompt, response,
                                    r.kwargs, sraises)
                      ELSE SetResult(FALSE, redis_db, g.memory_cache, FALSE)
             IN  [response |-> response, cached |-> FALSE, by |-> g.by,
                  n_get |-> IF use_cache THEN 1 ELSE 0, n_generate |-> 1,
                  n_set |-> IF use_cache THEN 1 ELSE 0, exc |-> g.exc \/ s.exc,
                  redis_db |-> s.redis_db, memory_cache |-> s.memory_cache,
                  hits |-> g.hits, misses |-> g.misses]

\* a call of ModelInferenceService.infer
Infer(r, use_cache, graises, response, sraises) ==
    /\ ncalls < MaxInfers
    /\ \E c \in {InferCall(r, use_cache, graises, response, sraises)} :
           /\ hits' = c.hits
           /\ misses' = c.misses
           /\ redis_db' = c.redis_db
           /\ memory_cache' = c.memory_cache
           /\ ret' = [op |-> "infer", req |-> r, use_cache |-> use_cache,
                      response |-> c.response, cached |-> c.cached, by |-> c.by,
                      n_get |-> c.n_get, n_generate |-> c.n_generate,
                      n_set |-> c.n_set, exc |-> c.exc,
                      redis_raised |-> graises \/ (sraises /\ c.n_set = 1)]
    /\ ngets' = IF use_cache /\ enabled THEN ngets + 1 ELSE ngets
    /\ ncalls' = ncalls + 1
    /\ UNCHANGED svars
    /\ UNCHANGED <<enabled, use_redis, ttl, now, model_loaded>>

\* the ret of a request the router refused or that failed: nothing was
\* appended, inferred, streamed, deleted or returned
Refused(op, user, request, status, detail) ==
    [op |-> op, user |-> user, request |-> request, status |-> status,
     detail |-> detail]

\* POST /chat, send_message(request, current_user): the session is checked or
\* created, the user message appended, the history read, the prompt built,
\* infer called, the assistant message appended, the response returned.
\* One call of increment_request_count is one more in ncalls.
SendMessage(user, request, graises, sraises) ==
    /\ ncalls < MaxChats
    /\ ncalls' = ncalls + 1
    /\ UNCHANGED <<enabled, use_redis, ttl, model_loaded, now, stream>>
    /\ \E refusal \in {SessionCheck(sessions, messages, user, request)} :
       IF refusal # << >>
       THEN /\ ret' = Refused("send_message", user, request, refusal[1], refusal[2])
            /\ UNCHANGED <<redis_db, memory_cache, hits, misses, ngets,
                           sessions, messages, nuuid, writer>>
       ELSE
       \E c0 \in {SessionOfTurn(sessions, messages, nuuid, user, request)} :
       \E a1 \in {add_message(c0.sessions, c0.messages, c0.nuuid, c0.value,
                              user, "user", request.prompt, NoParam)} :
       IF a1.exc # NoExc
       THEN /\ ret' = Refused("send_message", user, request, 500, a1.exc[2])
            /\ sessions' = a1.sessions
            /\ messages' = a1.messages
            /\ nuuid' = a1.nuuid
            /\ UNCHANGED <<redis_db, memory_cache, hits, misses, ngets, writer>>
       ELSE
       \E session \in {get_session(a1.sessions, a1.messages, c0.value)} :
       \E formatted_prompt \in
             {FormatPrompt(IF session = << >> THEN << >> ELSE session[1].messages,
                           request.prompt)} :
       \E r \in {InferRequest(formatted_prompt, request)} :
       \E response \in Generate(formatted_prompt) :
       \E c \in {InferCall(r, TRUE, graises, response, sraises)} :
       \E tokens_used \in {WordCount(c.response)} :
       \E a2 \in {add_message(a1.sessions, a1.messages, a1.nuuid, c0.value,
                              user, "assistant", c.response, <<tokens_used>>)} :
           /\ redis_db' = c.redis_db
           /\ memory_cache' = c.memory_cache
           /\ hits' = c.hits
           /\ misses' = c.misses
           /\ ngets' = IF enabled THEN ngets + 1 ELSE ngets
           /\ writer' = IF enabled /\ c.n_set = 1
                         THEN DictPut(writer,
                                      <<CacheBackend(sraises),
                                        _generate_cache_key(r.prompt, r.kwargs)>>,
                                      <<user, c0.value>>)
                         ELSE writer
           /\ sessions' = a2.sessions
           /\ messages' = a2.messages
           /\ IF a2.exc # NoExc
              THEN /\ nuuid' = a2.nuuid
                   /\ ret' = Refused("send_message", user, request, 500, a2.exc[2])
              ELSE /\ nuuid' = a2.nuuid + 1
                   /\ ret' = [op |-> "send_message", user |-> user,
                              request |-> request, status |-> 200,
                              prompt |-> formatted_prompt,
                              infer |-> [n_get |-> c.n_get,
                                         n_generate |-> c.n_generate,
                                         n_set |-> c.n_set],
                              served_by |->
                                  IF c.cached
                                  THEN KwGet(writer,
                                             <<CacheBackend(graises),
                                               _generate_cache_key(r.prompt, r.kwargs)>>,
                                             << >>)
                                  ELSE << >>,
                              body |-> [message_id |-> Uuid4(a2.nuuid),
                                        session_id |-> c0.value,
                                        response |-> c.response,
                                        tokens_used |-> tokens_used,
                                        cached |-> c.cached,
                                        timestamp |-> now]]

\* GET /chat/history, get_history(current_user)
GetHistory(user) ==
    /\ ncalls < MaxChats
    /\ ncalls' = ncalls + 1
    /\ ret' = [op |-> "get_history", user |-> user, status |-> 200,
               body |-> get_user_sessions(sessions, messages, user)]
    /\ UNCHANGED <<cvars, svars, now>>

\* get_session_history with a fault: the owner is not compared with the
\* caller
GetSessionHistory_NoOwnerCheck(user, session_id) ==
    /\ ncalls < MaxChats
    /\ ncalls' = ncalls + 1
    /\ \E session \in {get_session(sessions, messages, session_id)} :
         ret' = IF session = << >>
                THEN Refused("get_session_history", user, session_id,
                             404, "Session not found")
                ELSE [op |-> "get_session_history", user |-> user,
                      request |-> session_id, status |-> 200,
                      body |-> session[1]]
    /\ UNCHANGED <<cvars, svars, now>>

\* GET /chat/history/{session_id}, get_session_history(session_id, current_user)
GetSessionHistory(user, session_id) ==
    /\ ncalls < MaxChats
    /\ ncalls' = ncalls + 1
    /\ \E session \in {get_session(sessions, messages, session_id)} :
         ret' = IF session = << >>
                THEN Refused("get_session_history", user, session_id,
                             404, "Session not found")
                ELSE IF session[1].user_id # user
                THEN Refused("get_session_history", user, session_id,
                             403, "Access denied to this session")
                ELSE [op |-> "get_session_history", user |-> user,
                      request |-> session_id, status |-> 200,
                      body |-> session[1]]
    /\ UNCHANGED <<cvars, svars, now>>

\* DELETE /chat/history/{session_id}, delete_session(session_id, current_user);
\* the ValueError of the service is not caught and ends the request with 500
DeleteSessionHistory(user, session_id) ==
    /\ ncalls < MaxChats
    /\ ncalls' = ncalls + 1
    /\ \E d \in {delete_session(sessions, messages, nuuid, session_id, user)} :
           /\ sessions' = d.sessions
           /\ messages' = d.messages
           /\ nuuid' = d.nuuid
           /\ ret' = IF d.exc # NoExc
                     THEN Refused("delete_session_history", user, session_id,
                                  500, d.exc[2])
                     ELSE IF ~d.value
                     THEN Refused("delete_session_history", user, session_id,
                                  404, "Session not found")
                     ELSE [op |-> "delete_session_history", user |-> user,
                           request |-> session_id, status |-> 200,
                           body |-> "Session deleted successfully"]
    /\ UNCHANGED <<cvars, now, stream, writer>>

\* stream_infer with a fault: a cached text is replayed word by word and the
\* engine is not called
stream_infer_Replays(prompt, kwargs) ==
    LET g == CacheGet(memory_cache, hits, misses, prompt, kwargs, FALSE)
    IN  IF Truthy(g.value)
        THEN LET words == SplitBlank(g.value)
             IN  {[tokens |-> [i \in 1..Len(words) |->
                                 IF i = 1 THEN words[i] ELSE " " \o words[i]],
                   fails |-> FALSE, raised |-> "none", n_generate |-> 0]}
        ELSE {[tokens |-> g0.tokens, fails |-> g0.fails, raised |-> g0.raised,
               n_generate |-> 1] : g0 \in GenerateStream(prompt)}

\* ModelInferenceService.stream_infer(prompt, **kwargs): the token stream of
\* one call of LLMEngine.generate(stream=True); the cache is not looked at
stream_infer(prompt, kwargs) ==
    {[tokens |-> g.tokens, fails |-> g.fails, raised |-> g.raised,
      n_generate |-> 1] : g \in GenerateStream(prompt)}

\* full_response += token with a fault: the text so far is dropped
Accumulate_Overwrites(full_response, token) == token

\* full_response += token
Accumulate(full_response, token) == full_response \o token

\* the completion of a stream with a fault: a text that is not empty is
\* written to the cache
StreamCache_Sets(prompt, kwargs, full_response) ==
    \E s \in {CacheSet(redis_db, memory_cache, prompt, full_response, kwargs, FALSE)} :
        /\ redis_db' = IF full_response # "" THEN s.redis_db ELSE redis_db
        /\ memory_cache' = IF full_response # "" THEN s.memory_cache
                           ELSE memory_cache

\* what the completion of a stream does to the cache: nothing, no call of
\* CacheManager.set is made for a streamed text
StreamCache(prompt, kwargs, full_response) ==
    UNCHANGED <<redis_db, memory_cache>>

\* no StreamingResponse is being sent
StreamFree == stream.state \in {"none", "done", "error", "aborted", "cancelled"}

\* POST /chat/stream, send_message_stream(request, current_user), up to the
\* return of the StreamingResponse: the session is checked or created, the
\* user message appended, the history read, the prompt built
SendMessageStream(user, request) ==
    /\ ncalls < MaxChats
    /\ ncalls' = ncalls + 1
    /\ UNCHANGED <<cvars, now, writer>>
    /\ \E refusal \in {SessionCheck(sessions, messages, user, request)} :
       IF refusal # << >>
       THEN /\ ret' = Refused("send_message_stream", user, request,
                              refusal[1], refusal[2])
            /\ UNCHANGED <<sessions, messages, nuuid, stream>>
       ELSE
       /\ StreamFree
       /\ \E c0 \in {SessionOfTurn(sessions, messages, nuuid, user, request)} :
          \E a1 \in {add_message(c0.sessions, c0.messages, c0.nuuid, c0.value,
                                 user, "user", request.prompt, NoParam)} :
              /\ sessions' = a1.sessions
              /\ messages' = a1.messages
              /\ nuuid' = a1.nuuid
              /\ IF a1.exc # NoExc
                 THEN /\ ret' = Refused("send_message_stream", user, request,
                                        500, a1.exc[2])
                      /\ UNCHANGED stream
                 ELSE \E session \in {get_session(a1.sessions, a1.messages, c0.value)} :
                      \E formatted_prompt \in
                            {FormatPrompt(IF session = << >> THEN << >>
                                          ELSE session[1].messages,
                                          request.prompt)} :
                          /\ ret' = [op |-> "send_message_stream", user |-> user,
                                     request |-> request, status |-> 200,
                                     prompt |-> formatted_prompt,
                                     session_id |-> c0.value]
                          /\ stream' = [state |-> "created", user |-> user,
                                        session_id |-> c0.value,
                                        request |-> request,
                                        prompt |-> formatted_prompt,
                                        full_response |-> "",
                                        source |-> << >>, fails |-> FALSE,
                                        raised |-> "none", n_generate |-> 0,
                                        events |-> << >>]

\* generate_stream up to its first yield: the start event
StreamStart ==
    /\ stream.state = "created"
    /\ stream' = [stream EXCEPT
                     !.state = "started",
                     !.events = <<[type |-> "start",
                                   session_id |-> stream.session_id,
                                   message_id |-> Uuid4(nuuid)]>>]
    /\ nuuid' = nuuid + 1
    /\ UNCHANGED <<cvars, now, ret, ncalls, sessions, messages, writer>>

\* generate_stream from one yield to the next, with token_stream as it
\* stands (g): the next token that is not empty is sent; or token_stream
\* raises and the error event is sent; or it is exhausted, the assistant
\* message is appended and the done event is sent (if add_message raises,
\* the generator ends there)
StreamResume(g) ==
    \E rest \in {SelectSeq(g.tokens, LAMBDA t : t # "")} :
    IF rest # << >>
    THEN /\ stream' = [stream EXCEPT
                          !.state = "tokens",
                          !.source = Tail(rest),
                          !.fails = g.fails,
                          !.raised = g.raised,
                          !.n_generate = g.n_generate,
                          !.full_response = Accumulate(stream.full_response,
                                                       Head(rest)),
                          !.events = Append(stream.events,
                                            [type |-> "token",
                                             content |-> Head(rest)])]
         /\ UNCHANGED <<sessions, messages, nuuid, redis_db, memory_cache>>
    ELSE IF g.fails
    THEN /\ stream' = [stream EXCEPT
                          !.state = "error",
                          !.source = << >>,
                          !.fails = g.fails,
                          !.raised = g.raised,
                          !.n_generate = g.n_generate,
                          !.events = Append(stream.events,
                                            [type |-> "error",
                                             message |-> ErrorText])]
         /\ UNCHANGED <<sessions, messages, nuuid, redis_db, memory_cache>>
    ELSE \E tokens_used \in {WordCount(stream.full_response)} :
         \E a \in {add_message(sessions, messages, nuuid, stream.session_id,
                                stream.user, "assistant", stream.full_response,
                                <<tokens_used>>)} :
             /\ sessions' = a.sessions
             /\ messages' = a.messages
             /\ nuuid' = a.nuuid
             /\ IF a.exc # NoExc
                THEN /\ stream' = [stream EXCEPT !.state = "aborted",
                                                 !.source = << >>,
                                                 !.raised = g.raised,
                                                 !.n_generate = g.n_generate]
                     /\ UNCHANGED <<redis_db, memory_cache>>
                ELSE /\ stream' = [stream EXCEPT
                                     !.state = "done",
                                     !.source = << >>,
                                     !.raised = g.raised,
                                     !.n_generate = g.n_generate,
                                     !.events = Append(stream.events,
                                                       [type |-> "done",
                                                        tokens_used |-> tokens_used,
                                                        timestamp |-> now])]
                     /\ StreamCache(stream.prompt,
                                    InferRequest(stream.prompt, stream.request).kwargs,
                                    stream.full_response)

\* the variables no step of generate_stream touches
StreamFrame == <<enabled, use_redis, ttl, hits, misses, model_loaded, ngets,
                 now, ret, ncalls, writer>>

\* generate_stream resumed after the start event: stream_infer is called and
\* the iteration over token_stream begins
StreamOpen ==
    /\ stream.state = "started"
    /\ \E g \in stream_infer(stream.prompt,
                             InferRequest(stream.prompt, stream.request).kwargs) :
           StreamResume(g)
    /\ UNCHANGED StreamFrame

\* generate_stream resumed after a token event
StreamNext ==
    /\ stream.state = "tokens"
    /\ StreamResume([tokens |-> stream.source, fails |-> stream.fails,
                     raised |-> stream.raised, n_generate |-> stream.n_generate])
    /\ UNCHANGED StreamFrame

\* the disconnection with a fault: the text so far is appended as the
\* assistant message, as a `finally` around the loop would do
Disconnect_Commits ==
    /\ stream.state \in {"created", "started", "tokens"}
    /\ stream' = [stream EXCEPT !.state = "cancelled"]
    /\ \E a \in {add_message(sessions, messages, nuuid, stream.session_id,
                              stream.user, "assistant", stream.full_response,
                              <<WordCount(stream.full_response)>>)} :
           /\ sessions' = a.sessions
           /\ messages' = a.messages
           /\ nuuid' = a.nuuid
    /\ UNCHANGED <<cvars, now, ret, ncalls, writer>>

\* the client disconnects while generate_stream is suspended at a yield or at
\* asyncio.sleep(0) before its terminal event: the task is cancelled, which
\* `except Exception` does not catch, and the generator is never resumed
Disconnect ==
    /\ stream.state \in {"created", "started", "tokens"}
    /\ stream' = [stream EXCEPT !.state = "cancelled"]
    /\ UNCHANGED <<cvars, now, ret, ncalls, sessions, messages, nuuid, writer>>

-----------------------------------------------------------------------------
(* Specifications *)

\* the database with no session and no message, no response being streamed
InitStore ==
    /\ sessions = EmptyDict
    /\ messages = << >>
    /\ nuuid = 0
    /\ stream = NoStream
    /\ writer = EmptyDict

\* the cache manager as constructed; caching enabled or not, Redis reached
\* or not, a TTL configured
InitCache ==
    /\ enabled \in BOOLEAN
    /\ use_redis \in (IF enabled THEN BOOLEAN ELSE {FALSE})
    /\ ttl \in 1..MaxTtl
    /\ redis_db = EmptyDict
    /\ memory_cache = EmptyDict
    /\ now = 0
    /\ ret = NoCall
    /\ ncalls = 0
    /\ InitStore

\* calls made on the cache manager directly
Init ==
    /\ InitCache
    /\ hits = 0
    /\ misses = 0
    /\ ngets = 0
    /\ model_loaded = FALSE

Next ==
    \/ \E r \in CacheRequests, raises \in MayRaise : Get(r, raises)
    \/ \E r \in CacheRequests, v \in Values, raises \in MayRaise : Set(r, v, raises)
    \/ \E raises \in MayRaise : Flush(raises)
    \/ \E raises \in MayRaise : Stats(raises)
    \/ Tick

Spec == Init /\ [][Next]_vars

\* calls of infer, with the model loaded at startup or not
InitInfer ==
    /\ InitCache
    /\ hits = 0
    /\ misses = 0
    /\ ngets = 0
    /\ model_loaded \in BOOLEAN

NextInfer ==
    \/ \E r \in Requests, use_cache \in BOOLEAN :
         \E graises \in (IF use_cache THEN MayRaise ELSE {FALSE}),
            response \in Generate(r.prompt),
            sraises \in (IF use_cache THEN MayRaise ELSE {FALSE}) :
              Infer(r, use_cache, graises, response, sraises)
    \/ Tick

SpecInfer == InitInfer /\ [][NextInfer]_vars

\* get_stats applied after any number of counted gets
InitStats ==
    /\ InitCache
    /\ hits \in 0..MaxCount
    /\ misses \in 0..MaxCount
    /\ ngets = hits + misses
    /\ model_loaded = FALSE

NextStats == \E raises \in MayRaise : Stats(raises)

SpecStats == InitStats /\ [][NextStats]_vars

\* build_cache_key applied to any owner, session, prompt text and previous
\* response
KeyUsers == {"u1", "u2"}
KeySessions == {"s1", "s2"}
KeyPrevs == {NoParam} \cup {<<t>> : t \in Texts}

InitKey ==
    /\ InitCache
    /\ enabled = FALSE
    /\ ttl = 1
    /\ hits = 0
    /\ misses = 0
    /\ ngets = 0
    /\ model_loaded = FALSE

NextKey ==
    \E u \in KeyUsers, sid \in KeySessions, p \in Texts, prev \in KeyPrevs :
        BuildCacheKey(u, sid, p, prev)

SpecKey == InitKey /\ [][NextKey]_vars

\* trim_conversation applied to any history of up to MaxHistory messages,
\* of 0, 1, 2 or 3 estimated tokens each, and any budget up to MaxBudget
TrimTexts == {"", "a", "a b", "Z"}

RECURSIVE HistoriesUpTo(_)
HistoriesUpTo(n) ==
    IF n = 0 THEN {<< >>}
    ELSE LET shorter == HistoriesUpTo(n - 1)
         IN  shorter \cup
             {Append(h, [role |-> IF Len(h) % 2 = 0 THEN "user" ELSE "assistant",
                         content |-> c]) :
                  h \in {g \in shorter : Len(g) = n - 1}, c \in TrimTexts}

NextTrim ==
    \E history \in HistoriesUpTo(MaxHistory), max_tokens \in 0..MaxBudget :
        TrimConversation(history, max_tokens)

SpecTrim == InitKey /\ [][NextTrim]_vars

\* build_prompt applied to any history of up to MaxHistory messages of either
\* role, with empty, blank, plain and padded contents
PromptTexts == {"", " ", "a", " a "}

RECURSIVE ChatsUpTo(_)
ChatsUpTo(n) ==
    IF n = 0 THEN {<< >>}
    ELSE LET shorter == ChatsUpTo(n - 1)
         IN  shorter \cup
             {Append(h, [role |-> r, content |-> c]) :
                  h \in {g \in shorter : Len(g) = n - 1},
                  r \in {"user", "assistant"}, c \in PromptTexts}

NextPrompt ==
    \E history \in ChatsUpTo(MaxHistory), new_user_prompt \in PromptTexts :
        BuildPrompt(history, "s", new_user_prompt)

SpecPrompt == InitKey /\ [][NextPrompt]_vars

\* calls made on the session service by two users; a call names a session
\* that was created, a session that was deleted, or an id never given out
Users == {"u1", "u2"}
NamedIds == 1..(nuuid + 1)
Turns == {<<"user", "a", NoParam>>, <<"assistant", "b", <<1>>>>}

InitSession ==
    /\ InitCache
    /\ enabled = FALSE
    /\ ttl = 1
    /\ hits = 0
    /\ misses = 0
    /\ ngets = 0
    /\ model_loaded = FALSE

NextSession ==
    \/ \E u \in Users : CreateSession(u)
    \/ \E sid \in NamedIds, u \in Users, t \in Turns :
         AddMessage(sid, u, t[1], t[2], t[3])
    \/ \E sid \in NamedIds : GetSession(sid)
    \/ \E u \in Users : GetUserSessions(u)
    \/ \E sid \in NamedIds : GetSessionMessages(sid)
    \/ \E sid \in NamedIds, u \in Users : DeleteSession(sid, u)
    \/ Tick

SpecSession == InitSession /\ [][NextSession]_vars

\* requests made of the chat router by two users, with the cache backends
\* answering every call and the clock standing still: a request names no
\* session, a stored session or an id that names none
ChatPrompts == {"hi"}

ChatIds == (DOMAIN sessions) \cup {Uuid4(nuuid)}

ChatRequests ==
    [prompt : ChatPrompts,
     session_id : {NoParam} \cup {<<sid>> : sid \in ChatIds},
     max_tokens : {NoParam}, temperature : {NoParam}]

InitChat ==
    /\ InitCache
    /\ ttl = MaxTtl
    /\ hits = 0
    /\ misses = 0
    /\ ngets = 0
    /\ model_loaded \in BOOLEAN

NextChat ==
    \/ \E u \in Users, request \in ChatRequests :
            SendMessage(u, request, FALSE, FALSE)
    \/ \E u \in Users : GetHistory(u)
    \/ \E u \in Users, sid \in ChatIds : GetSessionHistory(u, sid)
    \/ \E u \in Users, sid \in ChatIds : DeleteSessionHistory(u, sid)
    \/ \E u \in Users, request \in ChatRequests : SendMessageStream(u, request)
    \/ StreamStart
    \/ StreamOpen
    \/ StreamNext

SpecChat == InitChat /\ [][NextChat]_vars

\* streamed and single-shot turns of one user, whose client may disconnect
\* from a stream in flight
StreamRequests ==
    [prompt : ChatPrompts,
     session_id : {NoParam} \cup {<<sid>> : sid \in DOMAIN sessions},
     max_tokens : {NoParam}, temperature : {NoParam}]

NextStream ==
    \/ \E request \in StreamRequests : SendMessageStream("u1", request)
    \/ \E request \in StreamRequests : SendMessage("u1", request, FALSE, FALSE)
    \/ StreamStart
    \/ StreamOpen
    \/ StreamNext
    \/ Disconnect

SpecStream == InitChat /\ [][NextStream]_vars

\* streamed turns answered by the mock engine; the prompts hold blanks at
\* either end and two in a row
MockPrompts == {"a  b", " a ", " "}

MockRequests ==
    [prompt : MockPrompts,
     session_id : {NoParam} \cup {<<sid>> : sid \in DOMAIN sessions},
     max_tokens : {NoParam}, temperature : {NoParam}]

InitMock ==
    /\ InitChat
    /\ ~model_loaded

NextMock ==
    \/ \E request \in MockRequests : SendMessageStream("u1", request)
    \/ StreamStart
    \/ StreamOpen
    \/ StreamNext

SpecMock == InitMock /\ [][NextMock]_vars

-----------------------------------------------------------------------------
(* Properties *)

\* the cache key of a request
KeyOf(r) == _generate_cache_key(r.prompt, r.kwargs)

\* this step is a call of CacheManager.get / CacheManager.set
GetStep == ncalls' = ncalls + 1 /\ ret'.op = "get"
SetStep == ncalls' = ncalls + 1 /\ ret'.op = "set"

\* the counters change by one hit / by one miss in this step
OneHit == hits' = hits + 1 /\ misses' = misses
OneMiss == hits' = hits /\ misses' = misses + 1

\* the last call was a set for request r whose ttl has not elapsed
SetJustBefore(r) ==
    ret.op = "set" /\ ret.ok /\ ret.req = r /\ now < ret.at + ttl

\* backend b holds an entry for key k that has not expired
Live(b, k) == k \in DOMAIN b /\ b[k].expiry > now

Abs(x) == IF x < 0 THEN -x ELSE x

C2_AnsweringBackendDecides ==
    [][ (enabled /\ GetStep) =>
          LET key == KeyOf(ret'.req)
          IN  IF use_redis /\ ~ret'.primary_failed
              THEN IF Live(redis_db, key) /\ redis_db[key].value # ""
                   THEN ret'.value = redis_db[key].value /\ OneHit
                   ELSE ret'.value = None /\ OneMiss
              ELSE IF Live(memory_cache, key)
                   THEN ret'.value = memory_cache[key].value /\ OneHit
                   ELSE ret'.value = None /\ OneMiss ]_vars

(* C2 as stated: whenever the primary or the fallback holds an unexpired   *)
(* (non-empty) entry for the key, get returns a value and counts a hit.    *)
C2_Original ==
    [][ (enabled /\ GetStep) =>
          LET key == KeyOf(ret'.req)
          IN  ( \/ Live(redis_db, key) /\ redis_db[key].value # ""
                \/ Live(memory_cache, key) /\ memory_cache[key].value # "" )
                 => (ret'.value # None /\ OneHit) ]_vars

\* the primary answered absent while the fallback holds a live entry
C2_Witness ==
    /\ ret.op = "get" /\ ret.value = None /\ use_redis /\ ~ret.primary_failed
    /\ Live(memory_cache, KeyOf(ret.req))
    /\ memory_cache[KeyOf(ret.req)].value # ""

(* C3.  When the primary raises during get, the call does not raise: it    *)
(* returns the fallback's unexpired value for the key if there is one,     *)
(* otherwise absent.                                                       *)
C3_PrimaryFailureFallsBack ==
    [][ (enabled /\ GetStep /\ ret'.primary_failed) =>
          LET key == KeyOf(ret'.req)
          IN  /\ ~ret'.exc
              /\ ret'.value = IF Live(memory_cache, key)
                              THEN memory_cache[key].value ELSE None ]_vars

\* a get during which the primary raised returned the fallback's text
C3_Witness ==
    ret.op = "get" /\ ret.primary_failed /\ ~ret.exc /\ ret.value = "a"

C5_SetNeverRaises ==
    ret.op = "set" =>
        /\ ~ret.exc
        /\ ret.ok <=> enabled
        /\ ret.primary_failed =>
             /\ ret.ok
             /\ KeyOf(ret.req) \in DOMAIN memory_cache
             /\ memory_cache[KeyOf(ret.req)].value = ret.value

(* C5 as stated: set never raises, and returns false when a backend error  *)
(* occurs during the write.                                                *)
C5_Original ==
    ret.op = "set" => (~ret.exc /\ (ret.primary_failed => ~ret.ok))

\* a set during which the primary raised
C5_Witness ==
    ret.op = "set" /\ ret.primary_failed /\ ret.ok /\ ~ret.exc

(* C6, as amended.  A set(k, v) followed by get(k) before the ttl has      *)
(* elapsed returns exactly v when the backend that answers the get is the  *)
(* one the set wrote to (on the primary, an empty v reads back as absent). *)
(* A get(k) made once the entry's expiry has passed returns absent and     *)
(* counts a miss; no get returns a value whose entry has expired.          *)
C6_RoundTripWithTtl ==
    [][ (enabled /\ GetStep) =>
          LET key == KeyOf(ret'.req)
          IN  /\ ( /\ SetJustBefore(ret'.req)
                   /\ ret.primary_failed = ret'.primary_failed
                   /\ (use_redis /\ ~ret.primary_failed => ret.value # "") )
                   => ret'.value = ret.value
              /\ ( /\ ret.op = "set" /\ ret.req = ret'.req
                   /\ now >= ret.at + ttl )
                   => (ret'.value = None /\ OneMiss)
              /\ ret'.value # None =>
                   \/ Live(redis_db, key) /\ redis_db[key].value = ret'.value
                   \/ Live(memory_cache, key)
                        /\ memory_cache[key].value = ret'.value ]_vars

(* C6 as stated: set(k, v) followed by get(k) before the ttl has elapsed   *)
(* returns exactly v (v a non-empty text), whichever backend answers.      *)
C6_Original ==
    [][ (enabled /\ GetStep /\ SetJustBefore(ret'.req) /\ ret.value # "")
          => ret'.value = ret.value ]_vars

\* a get made after the ttl of the set before it had elapsed: absent, a miss
C6_Witness ==
    /\ ret.op = "get" /\ ret.prior.op = "set" /\ ret.prior.req = ret.req
    /\ ret.prior.value = "a"
    /\ ret.at >= ret.prior.at + ttl
    /\ ret.value = None /\ misses = ret.misses_before + 1

C8_CountersMonotonic ==
    [][ hits' >= hits /\ misses' >= misses ]_vars

\* a flush made after two counted misses
C8_Witness ==
    ret.op = "flush" /\ misses >= 2 /\ ret.misses_before = misses

(* C9, as amended.  stats().hit_rate is the percentage                     *)
(* 100 * hits / (hits + misses) rounded to two decimals when               *)
(* hits + misses > 0, and 0 when no get has been counted.  (hit_rate is    *)
(* kept in hundredths of a percent.)                                       *)
C9_HitRateIsPercentage ==
    ret.op = "stats" =>
        LET s == ret.stats
            total == s.hits + s.misses
        IN  /\ s.hits = hits /\ s.misses = misses /\ s.total_requests = total
            /\ total = 0 => s.hit_rate = 0
            /\ total > 0 =>
                 2 * Abs(s.hit_rate * total - 100 * 100 * s.hits) <= total

(* C9 as stated: hit_rate is the fraction hits / (hits + misses) (to two   *)
(* decimals) when hits + misses > 0, and 0 otherwise.                      *)
C9_Original ==
    ret.op = "stats" =>
        LET s == ret.stats
            total == s.hits + s.misses
        IN  /\ total = 0 => s.hit_rate = 0
            /\ total > 0 => 2 * Abs(s.hit_rate * total - 100 * s.hits) <= total

\* stats after one hit and two misses: 33.33
C9_Witness ==
    ret.op = "stats" /\ hits = 1 /\ misses = 2 /\ ret.stats.hit_rate = 3333

(* C10.  Distinct (prompt, temperature, max_tokens) give distinct cache    *)
(* keys, and an infer call answered from the cache returns a value that a  *)
(* set with the same prompt, temperature and max_tokens stored.            *)
C10_HitOnlyForSameRequest ==
    /\ \A r1, r2 \in Requests : KeyOf(r1) = KeyOf(r2) => r1 = r2
    /\ (ret.op = "infer" /\ ret.cached) =>
          /\ ret.by = <<ret.req.prompt, ret.req.kwargs>>
          /\ ret.response # None

\* a request with its own temperature answered from the cache
C10_Witness ==
    /\ ret.op = "infer" /\ ret.cached
    /\ ret.req.kwargs["temperature"] # NoParam

\* the part of text t between its first and its last non-blank character
Core(t) ==
    LET I == {i \in 1..Len(t) : SubSeq(t, i, i) # " "}
    IN  IF I = {} THEN ""
        ELSE SubSeq(t, CHOOSE i \in I : \A j \in I : i <= j,
                       CHOOSE i \in I : \A j \in I : i >= j)

\* two previous responses count as the same: both absent or empty, or both
\* given with the same core
SamePrev(a, b) ==
    LET absent(x) == x = NoParam \/ x[1] = ""
    IN  IF absent(a) \/ absent(b) THEN absent(a) /\ absent(b)
        ELSE Core(a[1]) = Core(b[1])

(* C11, as amended.  build_cache_key gives two calls the same key exactly  *)
(* when they have the same user_id and session_id, prompts that are equal  *)
(* once leading and trailing whitespace is dropped, and previous responses *)
(* that are both absent-or-empty or equal once so trimmed.                 *)
C11_KeyUpToWhitespace ==
    ret.op = "build_cache_key" =>
        \A u \in KeyUsers, sid \in KeySessions, p \in Texts, prev \in KeyPrevs :
            (build_cache_key(u, sid, p, prev) = ret.key)
            <=> /\ u = ret.user_id
                /\ sid = ret.session_id
                /\ Core(p) = Core(ret.prompt)
                /\ SamePrev(prev, ret.prev_response)

\* C11 as stated: arguments that differ in any field give different keys
C11_Original ==
    ret.op = "build_cache_key" =>
        \A u \in KeyUsers, sid \in KeySessions, p \in Texts, prev \in KeyPrevs :
            (build_cache_key(u, sid, p, prev) = ret.key)
            <=> /\ u = ret.user_id
                /\ sid = ret.session_id
                /\ p = ret.prompt
                /\ prev = ret.prev_response

\* a key built from a prompt with surrounding blanks and a previous response
C11_Witness ==
    /\ ret.op = "build_cache_key"
    /\ ret.prompt = " a"
    /\ ret.prev_response = <<"a ">>
    /\ ret.key = << <<"a">>, "a", ret.session_id, ret.user_id >>

(* C12.  A chat turn answered from the cache is answered from an entry     *)
(* that a turn of the same owner in the same session wrote: the response   *)
(* of POST /chat has cached = True only when the entry read was stored by  *)
(* that user's turn in that session.                                       *)
C12_Original ==
    (ret.op = "send_message" /\ ret.status = 200 /\ ret.body.cached) =>
        ret.served_by = <<ret.user, ret.body.session_id>>

\* this step is a call of the named method of SessionService
StoreStep(op) == ncalls' = ncalls + 1 /\ ret'.op = op

\* the session named by the call exists / is owned by the caller, before it
Exists(r) == r.session_id \in DOMAIN sessions
OwnedByCaller(r) == Exists(r) /\ sessions[r.session_id].user_id = r.user_id

C14_NonOwnerRefused ==
    [][ (StoreStep("add_message") \/ StoreStep("delete_session")) =>
          /\ (Exists(ret') /\ ~OwnedByCaller(ret')) =>
                 ret'.exc = NotOwner /\ UNCHANGED <<sessions, messages>>
          /\ ~Exists(ret') =>
                 /\ UNCHANGED <<sessions, messages>>
                 /\ IF ret'.op = "add_message"
                    THEN ret'.exc = SessionNotFound
                    ELSE ret'.exc = NoExc /\ ret'.value = FALSE
      ]_vars

\* C14 as stated: a caller who does not own the session gets the not-owner
\* error whether or not the session exists
C14_Original ==
    [][ ((StoreStep("add_message") \/ StoreStep("delete_session"))
            /\ ~OwnedByCaller(ret')) =>
          ret'.exc = NotOwner /\ UNCHANGED <<sessions, messages>>
      ]_vars

\* another user's delete_session refused on a session that has a message
C14_Witness ==
    /\ ret.op = "delete_session"
    /\ ret.exc = NotOwner
    /\ ret.session_id \in DOMAIN sessions
    /\ Len(messages) = 1

\* the rows of table messages, as a set
Rows(ms) == {ms[i] : i \in 1..Len(ms)}

\* the session ids listed for a user
Listed(ss, ms, user_id) ==
    LET l == get_user_sessions(ss, ms, user_id)
    IN  {l[i].session_id : i \in 1..Len(l)}

(* C15.  delete_session returns False and changes nothing when the session *)
(* does not exist.  Called by the owner of an existing session it returns  *)
(* True, and afterwards get_session gives None for it, it is not among the *)
(* owner's listed sessions, no row of messages carries its id, and every   *)
(* other session reads exactly as before.                                  *)
C15_DeleteRemovesSessionOnly ==
    [][ StoreStep("delete_session") =>
          /\ ~Exists(ret') =>
                 /\ ret'.exc = NoExc /\ ret'.value = FALSE
                 /\ UNCHANGED <<sessions, messages>>
          /\ OwnedByCaller(ret') =>
                 /\ ret'.exc = NoExc /\ ret'.value = TRUE
                 /\ get_session(sessions', messages', ret'.session_id) = << >>
                 /\ ret'.session_id \notin Listed(sessions', messages', ret'.user_id)
                 /\ get_session_messages(messages', ret'.session_id) = << >>
                 /\ \A m \in Rows(messages') : m.session_id # ret'.session_id
                 /\ \A sid \in DOMAIN sessions \ {ret'.session_id} :
                        get_session(sessions', messages', sid)
                            = get_session(sessions, messages, sid)
      ]_vars

\* the owner deleted a session that had a message while owning another one
C15_Witness ==
    /\ ret.op = "delete_session"
    /\ ret.exc = NoExc
    /\ ret.value = TRUE
    /\ nuuid = 3
    /\ messages = << >>
    /\ \E sid \in DOMAIN sessions : sessions[sid].user_id = ret.user_id

\* the session a request of the chat router names, << >> when it names none
NamedSession(r) ==
    IF r.op \in {"send_message", "send_message_stream"} THEN r.request.session_id
    ELSE IF r.op \in {"get_session_history", "delete_session_history"}
    THEN <<r.request>>
    ELSE << >>

\* this step is a request that names a session another user owns
ForeignRequest ==
    /\ ncalls' = ncalls + 1
    /\ NamedSession(ret') # << >>
    /\ NamedSession(ret')[1] \in DOMAIN sessions
    /\ sessions[NamedSession(ret')[1]].user_id # ret'.user

(* C16.  A chat, stream, history-read or delete request that names a       *)
(* session of another user ends with an error status and a response that   *)
(* carries only the status and its detail text; the sessions, the          *)
(* messages, the cache with its counters and the stream are as before, and *)
(* no id is drawn.                                                         *)
C16_ForeignSessionRefused ==
    [][ ForeignRequest =>
          /\ ret'.status \in {403, 500}
          /\ DOMAIN ret' = {"op", "user", "request", "status", "detail"}
          /\ ret'.detail \in {"Access denied to this session",
                               "User does not own this session"}
          /\ UNCHANGED <<sessions, messages, nuuid>>
          /\ UNCHANGED <<redis_db, memory_cache, hits, misses, ngets, writer>>
          /\ UNCHANGED stream
      ]_vars

\* a stream request refused for a session of the other user that holds a
\* turn, while the cache holds the answer to the very prompt
C16_Witness ==
    /\ ret.op = "send_message_stream"
    /\ ret.status = 403
    /\ ret.request.session_id # NoParam
    /\ ret.request.session_id[1] \in DOMAIN sessions
    /\ sessions[ret.request.session_id[1]].user_id # ret.user
    /\ Len(SessionMessages(messages, ret.request.session_id[1])) = 2
    /\ writer # EmptyDict

C18_NoDanglingMessage ==
    /\ \A m \in Rows(messages) : m.session_id \in DOMAIN sessions
    /\ (ret.op = "add_message" /\ ret.session_id \notin DOMAIN sessions) =>
           ret.exc = SessionNotFound

\* an add_message refused for a session that was deleted with its message
C18_Witness ==
    /\ ret.op = "add_message"
    /\ ret.exc = SessionNotFound
    /\ ret.session_id = 1
    /\ nuuid = 2
    /\ messages = << >>

\* this step is a call of infer
InferStep == ncalls' = ncalls + 1 /\ ret'.op = "infer"

(* C19.  With caching enabled infer calls get exactly once.  When the      *)
(* cache answers with a hit, infer returns the cached value with           *)
(* cached = True and calls neither generate nor set; when it answers with  *)
(* a miss, infer calls generate once and set at most once, with the text   *)
(* generated, and returns that text with cached = False.                   *)
C19_Original ==
    [][ (InferStep /\ ret'.use_cache /\ enabled) =>
          /\ ret'.n_get = 1
          /\ (OneHit \/ OneMiss)
          /\ OneHit =>
                 /\ ret'.cached
                 /\ ret'.n_generate = 0
                 /\ ret'.n_set = 0
          /\ OneMiss =>
                 /\ ~ret'.cached
                 /\ ret'.n_generate = 1
                 /\ ret'.n_set <= 1
      ]_vars

(* C20.  infer writes the cache only when generation succeeded: a call     *)
(* whose generation failed makes no set, and no call returns the error     *)
(* text as a cached response.                                              *)
C20_Original ==
    ret.op = "infer" =>
        /\ (~ret.cached /\ ret.response = ErrorText) => ret.n_set = 0
        /\ ret.cached => ret.response # ErrorText

(* C21.  infer never raises and always returns a text and a flag, whether  *)
(* or not the primary cache fails on get or on set, the model is loaded,   *)
(* or generation fails: with no model loaded a generated answer is the     *)
(* placeholder text, and a call that generated, successfully or not,       *)
(* returns cached = False; a failed generation is returned as the error    *)
(* text.                                                                   *)
C21_InferNeverRaises ==
    [][ InferStep =>
          /\ ~ret'.exc
          /\ ret'.response # None
          /\ ret'.cached \in BOOLEAN
          /\ ret'.n_generate \in {0, 1}
          /\ ret'.n_generate = 1 =>
                 /\ ~ret'.cached
                 /\ ret'.response \in Generate(ret'.req.prompt)
                 /\ ~model_loaded => ret'.response = _mock_generate(ret'.req.prompt)
          /\ ret'.n_generate = 0 => ret'.cached /\ ret'.use_cache /\ enabled
      ]_vars

\* a call on Redis with a model whose generation failed and a set that the
\* primary refused: the error text went to the fallback and was returned
C21_Witness ==
    /\ ret.op = "infer"
    /\ use_redis
    /\ model_loaded
    /\ ret.redis_raised
    /\ ret.response = ErrorText
    /\ ~ret.cached
    /\ KeyOf(ret.req) \in DOMAIN memory_cache
    /\ redis_db = EmptyDict

(* C22.  With caching enabled and no cache failure, the first infer call   *)
(* on an empty cache returns cached = False after one generation, and an   *)
(* identical second call made while the entry of the first has not expired *)
(* returns the same text with cached = True and no generation.             *)
C22_Original ==
    [][ (InferStep /\ enabled /\ ret'.use_cache /\ ~ret'.redis_raised) =>
          /\ ncalls = 0 => (~ret'.cached /\ ret'.n_generate = 1)
          /\ ( /\ ncalls = 1
               /\ ret.use_cache
               /\ ~ret.redis_raised
               /\ ret.req = ret'.req
               /\ Live(redis_db, KeyOf(ret.req)) \/ Live(memory_cache, KeyOf(ret.req)) ) =>
                 /\ ret'.cached
                 /\ ret'.response = ret.response
                 /\ ret'.n_generate = 0
      ]_vars

\* the stream in flight has run to its end, the client still connected
StreamEnded == stream.state \in {"done", "error", "aborted"}

\* the contents of the token events among ev, in order, put together
RECURSIVE TokenText(_)
TokenText(ev) ==
    IF ev = << >> THEN ""
    ELSE (IF Head(ev).type = "token" THEN Head(ev).content ELSE "")
         \o TokenText(Tail(ev))

\* the events of type ty among ev
EventsOf(ev, ty) == SelectSeq(ev, LAMBDA e : e.type = ty)

(* C23.  A stream that has run to its end has sent a start event first,    *)
(* then only token events, then one terminal event, done or error, last.   *)
C23_Original ==
    StreamEnded =>
        LET ev == stream.events
        IN  /\ Len(ev) >= 2
            /\ ev[1].type = "start"
            /\ ev[Len(ev)].type \in {"done", "error"}
            /\ \A i \in 2..(Len(ev) - 1) : ev[i].type = "token"

\* this step resumes generate_stream after the start event: stream_infer is
\* called and the first tokens are consumed
OpenStep == stream.state = "started" /\ stream'.state \notin {"started", "cancelled"}

\* the kwargs that go with the prompt of stream st into the cache key
StreamKwargs(st) == InferRequest(st.prompt, st.request).kwargs

\* the value CacheManager.get would return for the derived key of stream st
CachedFor(st) ==
    CacheGet(memory_cache, hits, misses, st.prompt, StreamKwargs(st), FALSE).value

\* the words of a text, all but the first with a blank in front
SpacedWords(text) ==
    LET words == SplitBlank(text)
    IN  [i \in 1..Len(words) |-> IF i = 1 THEN words[i] ELSE " " \o words[i]]

\* the tokens of stream st that are sent or still to be sent
TokensOf(st) ==
    LET sent == EventsOf(st.events, "token")
    IN  [i \in 1..Len(sent) |-> sent[i].content]
        \o SelectSeq(st.source, LAMBDA t : t # "")

(* C24.  When the cache holds an unexpired value for the derived key of    *)
(* the turn, the stream does not call the engine and its tokens are the    *)
(* words of the cached text, the first as it is and the later ones with a  *)
(* blank in front.                                                         *)
C24_Original ==
    [][ (OpenStep /\ Truthy(CachedFor(stream))) =>
          /\ stream'.n_generate = 0
          /\ TokensOf(stream') = SpacedWords(CachedFor(stream))
      ]_vars

(* C24, as amended.  The streaming path does not look at the cache: also   *)
(* when the cache holds an unexpired value for the derived key of the      *)
(* turn, stream_infer calls the engine once and the tokens are those of    *)
(* the engine; the entries and the hit and miss counters are as before,    *)
(* and no event of the stream carries a cached flag.                       *)
C24_StreamIgnoresCache ==
    [][ OpenStep =>
          /\ stream'.n_generate = 1
          /\ \E g \in GenerateStream(stream.prompt) :
                 /\ TokensOf(stream') = SelectSeq(g.tokens, LAMBDA t : t # "")
                 /\ stream'.raised = g.raised
          /\ UNCHANGED <<redis_db, memory_cache, hits, misses, ngets>>
          /\ \A i \in 1..Len(stream'.events) : "cached" \notin DOMAIN stream'.events[i]
      ]_vars

\* a stream that ran to done on the engine's tokens while the cache held a
\* value for its key, stored by a single-shot turn, with no get counted
C24_Witness ==
    /\ stream.state = "done"
    /\ stream.n_generate = 1
    /\ Truthy(CachedFor(stream))
    /\ writer # EmptyDict
    /\ hits = 0
    /\ misses = 1

\* the entry of the backend in use under the derived key of stream st, after
\* this step, holds text
HeldAfter(st, text) ==
    LET k == _generate_cache_key(st.prompt, StreamKwargs(st))
    IN  IF use_redis
        THEN k \in DOMAIN redis_db' /\ redis_db'[k].value = text
                /\ redis_db'[k].expiry > now
        ELSE k \in DOMAIN memory_cache' /\ memory_cache'[k].value = text
                /\ memory_cache'[k].expiry > now

\* this step sends the done event of the stream
DoneStep == stream.state \in {"started", "tokens"} /\ stream'.state = "done"

(* C25.  With caching enabled, after a stream has completed with a text    *)
(* that is not empty the cache holds that text under the derived key of    *)
(* the turn; a stream that completes with the empty text leaves the cache  *)
(* as it was.                                                              *)
C25_Original ==
    [][ (DoneStep /\ enabled) =>
          IF stream'.full_response # ""
          THEN HeldAfter(stream, stream'.full_response)
          ELSE UNCHANGED <<redis_db, memory_cache>>
      ]_vars

(* C25, as amended.  A stream writes nothing to the cache, whatever text   *)
(* it accumulated: every step of a streamed request leaves the entries of  *)
(* both backends and the counters as they were, so after a stream has      *)
(* completed the cache holds a value for its key only if a single-shot     *)
(* turn stored it.                                                         *)
C25_StreamWritesNoCache ==
    [][ stream' # stream =>
          /\ UNCHANGED <<redis_db, memory_cache, hits, misses, ngets, writer>>
          /\ (DoneStep /\ writer = EmptyDict) =>
                 CachedFor(stream') = None /\ memory_cache' = EmptyDict
                    /\ redis_db' = EmptyDict
      ]_vars

\* a stream completed with a text that is not empty, caching enabled, and
\* both backends empty
C25_Witness ==
    /\ stream.state = "done"
    /\ stream.full_response # ""
    /\ enabled
    /\ redis_db = EmptyDict
    /\ memory_cache = EmptyDict

(* C26.  A stream whose generation failed, at the call of the model or at  *)
(* a fragment, appends no assistant message and writes nothing to the      *)
(* cache; when it has ended it has sent exactly one error event, last, and *)
(* no done event; and a failure at the call sends no token event at all.   *)
C26_Original ==
    [][ (stream' # stream /\ stream'.state \notin {"none", "created", "cancelled"}
           /\ stream'.raised # "none") =>
          /\ UNCHANGED <<messages, redis_db, memory_cache>>
          /\ stream'.raised = "creation" =>
                 EventsOf(stream'.events, "token") = << >>
          /\ stream'.state \in {"done", "error", "aborted"} =>
                 /\ stream'.state = "error"
                 /\ Len(EventsOf(stream'.events, "error")) = 1
                 /\ stream'.events[Len(stream'.events)].type = "error"
                 /\ EventsOf(stream'.events, "done") = << >>
      ]_vars

\* the row the stream's completion appends, given the done event sent
AssistantRow(st, done) ==
    [message_id |-> Uuid4(nuuid), session_id |-> st.session_id,
     user_id |-> st.user, role |-> "assistant",
     content |-> TokenText(st.events), timestamp |-> now,
     tokens_used |-> <<done.tokens_used>>]

(* C27.  The step that sends the done event appends exactly one assistant  *)
(* message to the session of the stream, whose content is the contents of  *)
(* the token events put together; the done event carries the word count of *)
(* that text, the cached flag and a timestamp; and a done event is sent in *)
(* no other way.                                                           *)
C27_Original ==
    [][ (stream' # stream /\ stream'.state = "done") =>
          LET done == stream'.events[Len(stream'.events)]
          IN  /\ DoneStep
              /\ done.type = "done"
              /\ messages' = Append(messages, AssistantRow(stream', done))
              /\ done.tokens_used = WordCount(TokenText(stream'.events))
              /\ DOMAIN done = {"type", "tokens_used", "cached", "timestamp"}
              /\ done.timestamp = now
      ]_vars

(* C27, as amended.  As C27, but the done event carries the word count and *)
(* the timestamp only: it has no cached flag.                              *)
C27_DoneAfterAppend ==
    [][ (stream' # stream /\ stream'.state = "done") =>
          LET done == stream'.events[Len(stream'.events)]
          IN  /\ DoneStep
              /\ done.type = "done"
              /\ Len(EventsOf(stream'.events, "done")) = 1
              /\ messages' = Append(messages, AssistantRow(stream', done))
              /\ done.tokens_used = WordCount(TokenText(stream'.events))
              /\ DOMAIN done = {"type", "tokens_used", "timestamp"}
              /\ done.timestamp = now
      ]_vars

\* a stream of the model's two fragments completed: the assistant message
\* "a b" of two words is the last row
C27_Witness ==
    /\ stream.state = "done"
    /\ Len(EventsOf(stream.events, "token")) = 2
    /\ stream.full_response = "a b"
    /\ messages # << >>
    /\ messages[Len(messages)].role = "assistant"
    /\ messages[Len(messages)].content = "a b"
    /\ messages[Len(messages)].tokens_used = <<2>>

(* C28.  When the client disconnects from a stream before its terminal     *)
(* event, that step and every later one leave the stream as it is: no      *)
(* further token is consumed or sent and no terminal event follows; the    *)
(* text accumulated so far is not appended to the session and not written  *)
(* to the cache.  The stream variable changes again only when a new        *)
(* streamed request is accepted.                                           *)
C28_DisconnectCommitsNothing ==
    [][ /\ (stream.state \in {"created", "started", "tokens"}
              /\ stream'.state = "cancelled") =>
               /\ stream' = [stream EXCEPT !.state = "cancelled"]
               /\ UNCHANGED <<sessions, messages, nuuid>>
               /\ UNCHANGED <<redis_db, memory_cache, hits, misses, ngets, writer>>
        /\ (stream.state = "cancelled" /\ stream' # stream) =>
               /\ stream'.state = "created"
               /\ ncalls' = ncalls + 1
               /\ ret'.op = "send_message_stream"
      ]_vars

\* a stream cancelled after two tokens, with tokens still to come: the last
\* row of the table is the user's message and the cache is empty
C28_Witness ==
    /\ stream.state = "cancelled"
    /\ Len(EventsOf(stream.events, "token")) = 2
    /\ stream.source # << >>
    /\ stream.full_response # ""
    /\ messages[Len(messages)].role = "user"
    /\ messages[Len(messages)].session_id = stream.session_id
    /\ enabled
    /\ redis_db = EmptyDict
    /\ memory_cache = EmptyDict

(* C29.  With no model loaded, the contents of the token events of a       *)
(* completed stream, put together in the order sent, are the text the      *)
(* single-shot path returns for the same prompt and parameters; and no     *)
(* token event, of any stream, has empty content.                          *)
C29_StreamEqualsSingleShot ==
    /\ stream.state # "none" =>
           \A i \in 1..Len(stream.events) :
               stream.events[i].type = "token" => stream.events[i].content # ""
    /\ (stream.state = "done" /\ ~model_loaded) =>
           \A response \in Generate(stream.prompt) :
               TokenText(stream.events) =
                   InferCall(InferRequest(stream.prompt, stream.request),
                             TRUE, FALSE, response, FALSE).response

\* a completed mock stream for the prompt with two blanks in a row: the
\* empty word between them was sent as a token of one blank
C29_Witness ==
    /\ stream.state = "done"
    /\ ~model_loaded
    /\ stream.request.prompt = "a  b"
    /\ \E i \in 1..Len(stream.events) :
           stream.events[i].type = "token" /\ stream.events[i].content = " "
    /\ Len(EventsOf(stream.events, "token")) = 26

\* the sum of the estimates of the messages of a history
RECURSIVE HistoryTokens(_)
HistoryTokens(h) ==
    IF h = << >> THEN 0
    ELSE estimate_tokens(Head(h).content) + HistoryTokens(Tail(h))

\* t is h from some message on, in the same order
IsSuffix(t, h) ==
    Len(t) <= Len(h) /\ t = SubSeq(h, Len(h) - Len(t) + 1, Len(h))

(* C30.  For a history that is not empty and whose estimates sum to more   *)
(* than the budget, the trimmed history is a suffix of it that holds the   *)
(* most recent message, and its estimates sum to no more than the budget   *)
(* plus the estimate of one of its messages.                               *)
C30_Original ==
    (ret.op = "trim_conversation" /\ ret.messages # << >>
        /\ HistoryTokens(ret.messages) > ret.max_tokens) =>
        /\ IsSuffix(ret.trimmed, ret.messages)
        /\ ret.trimmed # << >>
        /\ ret.trimmed[Len(ret.trimmed)] = ret.messages[Len(ret.messages)]
        /\ \E i \in 1..Len(ret.trimmed) :
               HistoryTokens(ret.trimmed)
                   <= ret.max_tokens + estimate_tokens(ret.trimmed[i].content)

\* a window of K messages, one short of the longest history tried
TrimWindow == MaxHistory - 1

(* C31.  Trimming returns the history as it is when its estimates sum to   *)
(* no more than the budget and it has no more than K messages; of a longer *)
(* history it returns no more than K messages, the most recent ones.       *)
C31_Original ==
    ret.op = "trim_conversation" =>
        /\ (HistoryTokens(ret.messages) <= ret.max_tokens
              /\ Len(ret.messages) <= TrimWindow) =>
               ret.trimmed = ret.messages
        /\ Len(ret.messages) > TrimWindow =>
               /\ Len(ret.trimmed) <= TrimWindow
               /\ IsSuffix(ret.trimmed, ret.messages)

\* the step is a call of get or of get_stats that the in-memory cache serves
FallbackGet == GetStep /\ enabled /\ (~use_redis \/ ret'.primary_failed)
FallbackStats == ncalls' = ncalls + 1 /\ ret'.op = "stats" /\ ~use_redis

(* C32.  The in-memory cache evicts lazily: a key leaves it only in a call *)
(* of get, flush or get_stats, and get and get_stats take out only entries *)
(* whose expiry has come; the clock advancing leaves the in-memory cache   *)
(* as it is, expired entries included; after a get or a get_stats served   *)
(* by the in-memory cache no entry with an expiry before the current time  *)
(* is left in it.                                                          *)
C32_LazyEviction ==
    [][/\ \A k \in DOMAIN memory_cache \ DOMAIN memory_cache' :
              /\ ncalls' = ncalls + 1
              /\ ret'.op \in {"get", "flush", "stats"}
              /\ ret'.op # "flush" => memory_cache[k].expiry <= now
       /\ now' # now => memory_cache' = memory_cache
       /\ (FallbackGet \/ FallbackStats) =>
              \A k \in DOMAIN memory_cache' : memory_cache'[k].expiry >= now'
      ]_vars

\* an entry of the in-memory cache whose expiry has passed is still there:
\* nothing has been read, flushed or counted since it was set
C32_Witness ==
    /\ ret.op = "set"
    /\ \E k \in DOMAIN memory_cache : memory_cache[k].expiry < now

\* the step is a call of create_session, of get_user_sessions
CreateStep == ncalls' = ncalls + 1 /\ ret'.op = "create_session"
ListStep == ncalls' = ncalls + 1 /\ ret'.op = "get_user_sessions"

AppendStep ==
    ncalls' = ncalls + 1 /\ ret'.op = "add_message" /\ ret'.exc = NoExc

(* C34.  The updated_at of a stored session never decreases from one step  *)
(* to the next and is never before its created_at; an add_message that     *)
(* goes through sets it to the time of the call, which is no earlier than  *)
(* the value it had, and leaves the updated_at of every other session as   *)
(* it is.                                                                  *)
C34_UpdatedAtMonotone ==
    [][/\ \A sid \in DOMAIN sessions \cap DOMAIN sessions' :
              /\ sessions'[sid].updated_at >= sessions[sid].updated_at
              /\ sessions'[sid].updated_at >= sessions'[sid].created_at
       /\ AppendStep =>
              /\ sessions'[ret'.session_id].updated_at = now
              /\ now >= sessions[ret'.session_id].updated_at
              /\ \A sid \in DOMAIN sessions \ {ret'.session_id} :
                     sessions'[sid].updated_at = sessions[sid].updated_at
      ]_vars

\* a session that was appended to twice, at different times, both later
\* than its creation
C34_Witness ==
    /\ ret.op = "add_message"
    /\ ret.exc = NoExc
    /\ Len(SessionMessages(messages, ret.session_id)) = 2
    /\ messages[1].timestamp > sessions[ret.session_id].created_at
    /\ messages[1].timestamp < sessions[ret.session_id].updated_at

\* the turns a prompt in the <|im_start|> format holds, read off its text:
\* each runs from a start marker over the role and a newline to the next end
\* marker
RECURSIVE ParseTurns(_)
ParseTurns(t) ==
    IF ~StartsWith(t, "<|im_start|>") \/ ~Contains(t, "<|im_end|>\n") THEN << >>
    ELSE LET turn    == BeforeFirst(t, "<|im_end|>\n")
             inner   == SubSeq(turn, Len("<|im_start|>") + 1, Len(turn))
             role    == BeforeFirst(inner, "\n")
             content == SubSeq(inner, Len(role) + 2, Len(inner))
             rest    == SubSeq(t, Len(turn) + Len("<|im_end|>\n") + 1, Len(t))
         IN  <<[role |-> role, content |-> content]>> \o ParseTurns(rest)

\* the messages of a history whose stripped content is not empty, as turns
KeptTurns(h) ==
    LET kept == SelectSeq(h, LAMBDA msg : Strip(msg.content) # "")
    IN  [i \in 1..Len(kept) |->
            [role |-> kept[i].role, content |-> Strip(kept[i].content)]]

(* C35.  The prompt build_prompt returns holds, after the system turn, one *)
(* turn for each message of the history whose stripped content is not     *)
(* empty, in the order of the history, with the message's role and its     *)
(* stripped content, and no turn for the other messages; then one user     *)
(* turn with the stripped new user text; and it ends with the marker that  *)
(* opens the assistant's turn, with nothing after it.                      *)
C35_BuildPrompt ==
    ret.op = "build_prompt" =>
        /\ ParseTurns(ret.prompt) =
               <<[role |-> "system", content |-> ret.system_prompt]>>
               \o KeptTurns(ret.messages)
               \o <<[role |-> "user", content |-> Strip(ret.new_user_prompt)]>>
        /\ AfterLast(ret.prompt, "<|im_end|>\n") = "<|im_start|>assistant\n"
        /\ Cardinality(Occurrences(ret.prompt, "<|im_start|>")) =
               Len(KeptTurns(ret.messages)) + 3

\* a history with a blank message between two messages with text, and a
\* padded new user text
C35_Witness ==
    /\ ret.op = "build_prompt"
    /\ Len(ret.messages) = 3
    /\ ret.messages[1].content = " a "
    /\ ret.messages[2].content = " "
    /\ ret.messages[3].content = "a"
    /\ ret.new_user_prompt = " a "
    /\ Len(ParseTurns(ret.prompt)) = 4

\* the step is a single-shot turn that was answered
AnsweredStep ==
    ncalls' = ncalls + 1 /\ ret'.op = "send_message" /\ ret'.status = 200

\* the number of messages of history h with the role
RoleCount(h, role) == Len(SelectSeq(h, LAMBDA msg : msg.role = role))

(* C36.  A single-shot turn that is answered adds two rows to table        *)
(* messages, after all the rows there were and in this order: the user     *)
(* message with the text of the request, then the assistant message with   *)
(* the response text returned, both in the session of the turn, which had  *)
(* the messages it had before and now has these two after them.  The       *)
(* prompt that was sent to the cache and the engine was built from a       *)
(* history read after the user message was appended: it holds one user     *)
(* turn for each user message the session had before plus the one of this  *)
(* turn, and one assistant turn for each assistant message plus the open   *)
(* one.                                                                    *)
C36_TurnOrder ==
    [][AnsweredStep =>
          LET sid   == ret'.body.session_id
              n     == Len(messages)
              prior == SessionMessages(messages, sid)
          IN  /\ Len(messages') = n + 2
              /\ SubSeq(messages', 1, n) = messages
              /\ messages'[n + 1].role = "user"
              /\ messages'[n + 1].content = ret'.request.prompt
              /\ messages'[n + 1].session_id = sid
              /\ messages'[n + 2].role = "assistant"
              /\ messages'[n + 2].content = ret'.body.response
              /\ messages'[n + 2].session_id = sid
              /\ messages'[n + 2].tokens_used = <<ret'.body.tokens_used>>
              /\ SessionMessages(messages', sid) =
                     prior \o <<messages'[n + 1], messages'[n + 2]>>
              /\ Cardinality(Occurrences(ret'.prompt, "<|user|>\n")) =
                     RoleCount(prior, "user") + 1
              /\ Cardinality(Occurrences(ret'.prompt, "<|assistant|>\n")) =
                     RoleCount(prior, "assistant") + 1
              /\ ret'.infer.n_get + ret'.infer.n_generate >= 1
      ]_vars

\* the second answered single-shot turn of a session: four messages, the
\* last two of this turn
C36_Witness ==
    /\ ret.op = "send_message"
    /\ ret.status = 200
    /\ ~ret.body.cached
    /\ Len(SessionMessages(messages, ret.body.session_id)) = 4
    /\ messages[4].content = ret.body.response

\* the turns a prompt in the <|role|> format holds, read off its text: the
\* k-th runs from "<|" (after the end of the one before) over the role, "|>"
\* and a newline (the first of `roles` after its start) to the k-th "</s>"
\* and newline (ends[k])
ParseMarks(t, ends, roles) ==
    [k \in 1..Len(ends) |->
        LET start == IF k = 1 THEN 1 ELSE ends[k - 1] + 5
            r     == CHOOSE x \in roles :
                         x > start /\ \A y \in roles : y > start => x <= y
        IN  [role |-> SubSeq(t, start + 2, r - 1),
             content |-> SubSeq(t, r + 3, ends[k] - 1)]]

ParseChat(t) ==
    ParseMarks(t, InOrder(Occurrences(t, "</s>\n")), Occurrences(t, "|>\n"))

\* t.endswith(p)
EndsWith(t, p) == Len(t) >= Len(p) /\ SubSeq(t, Len(t) - Len(p) + 1, Len(t)) = p

\* the messages of a history as turns
TurnsOf(h) ==
    [i \in 1..Len(h) |-> [role |-> h[i].role, content |-> h[i].content]]

\* the step is a turn, single-shot or streamed, that got as far as its prompt
PromptStep ==
    /\ ncalls' = ncalls + 1
    /\ ret'.op \in {"send_message", "send_message_stream"}
    /\ ret'.status = 200

\* the session of the turn of ret
TurnSession(r) ==
    IF r.op = "send_message" THEN r.body.session_id ELSE r.session_id

(* C38.  The prompt of a chat turn, single-shot or streamed, holds after   *)
(* the system turn one turn for each message the session held when the     *)
(* request came in, with its role and content and in the order of the      *)
(* session, then one user turn with the text of the request, and ends with *)
(* the opening of the assistant's turn: the new user message is in it      *)
(* once, as the last user turn, also when the session holds the user       *)
(* message of a streamed turn that has not been answered yet.              *)
C38_PromptHoldsHistoryOnce ==
    [][PromptStep =>
          \E prior \in {SessionMessages(messages, TurnSession(ret'))} :
          \E turns \in {ParseChat(ret'.prompt)} :
          \E held \in {SessionMessages(messages', TurnSession(ret'))} :
              /\ Len(turns) = Len(prior) + 2
              /\ turns[1].role = "system"
              /\ SubSeq(turns, 2, Len(prior) + 1) = TurnsOf(prior)
              /\ turns[Len(turns)] =
                     [role |-> "user", content |-> ret'.request.prompt]
              /\ EndsWith(ret'.prompt, "</s>\n<|assistant|>\n")
              /\ SubSeq(held, 1, Len(prior)) = prior
              /\ held[Len(prior) + 1].role = "user"
              /\ held[Len(prior) + 1].content = ret'.request.prompt
      ]_vars

\* a single-shot turn answered on a session whose streamed turn is still
\* being sent: the prompt held the user message of the streamed turn and
\* its own
C38_Witness ==
    /\ ret.op = "send_message"
    /\ ret.status = 200
    /\ stream.state = "tokens"
    /\ stream.session_id = ret.body.session_id
    /\ Len(ParseChat(ret.prompt)) = 3
    /\ Len(SessionMessages(messages, ret.body.session_id)) = 3

\* the roles of the messages of history h alternate, from a user message on
Alternates(h) ==
    \A i \in 1..Len(h) :
        h[i].role = (IF i % 2 = 1 THEN "user" ELSE "assistant")

(* C39.  In every stored session the messages alternate: user, assistant,  *)
(* user, assistant, so that each assistant message comes right after the   *)
(* user message it answers, whatever the interleaving of single-shot and   *)
(* streamed turns on the session.                                          *)
C39_Original ==
    \A sid \in DOMAIN sessions : Alternates(SessionMessages(messages, sid))

(* C39, amended.  In every stored session each assistant message follows   *)
(* the user message it answers, though not always at once: every message   *)
(* is a user or an assistant message, and up to any point of the session   *)
(* there are at least as many user messages as assistant messages.         *)
C39_RepliesFollowTurns ==
    \A sid \in DOMAIN sessions :
        \E h \in {SessionMessages(messages, sid)} :
            \A i \in 1..Len(h) :
                /\ h[i].role \in {"user", "assistant"}
                /\ RoleCount(SubSeq(h, 1, i), "assistant")
                       <= RoleCount(SubSeq(h, 1, i), "user")

\* a streamed turn that ended after a single-shot turn on the same session
\* was answered: two user messages, then the two replies
C39_Witness ==
    /\ stream.state = "done"
    /\ \E h \in {SessionMessages(messages, stream.session_id)} :
           /\ Len(h) = 4
           /\ h[1].role = "user"
           /\ h[2].role = "user"
           /\ h[3].role = "assistant"
           /\ h[4].role = "assistant"
           /\ h[4].content = stream.full_response

\* the step is a set that went through and was taken by the primary, by the
\* fallback
PrimarySet == SetStep /\ ret'.ok /\ use_redis /\ ~ret'.primary_failed
FallbackSet == SetStep /\ ret'.ok /\ (~use_redis \/ ret'.primary_failed)

\* the entry the set of ret' files
EntryOfSet ==
    Entry(ret'.req.prompt, ret'.value, ret'.req.kwargs, now + ttl)

(* C37 as stated: a get that returns a value returns the value of the most *)
(* recent set of the key that went through, whichever backends took the    *)
(* sets and answer the get.                                                *)
C37_Original ==
    [][ ( /\ enabled /\ GetStep /\ ret'.value # None
          /\ ret.op = "set" /\ ret.ok /\ ret.req = ret'.req )
          => ret'.value = ret.value ]_vars

(* C37, as amended.  A set replaces the entry of its key in the backend    *)
(* that takes it, the primary when it is in use and the write succeeds,    *)
(* else the fallback: whatever was filed under the key there, the entry is *)
(* now (value, now + ttl), and the other backend is left as it was.  An    *)
(* entry of a backend is filed or changed by nothing but a set that this   *)
(* backend takes, and a get that returns a value returns the unexpired     *)
(* entry of the backend that answers it: the value of the most recent set  *)
(* of the key taken by that backend, which after a failure or recovery of  *)
(* the primary is not always the most recent set of the key.               *)
C37_SetReplacesInItsBackend ==
    [][ /\ PrimarySet =>
               /\ redis_db' = DictPut(redis_db, KeyOf(ret'.req), EntryOfSet)
               /\ memory_cache' = memory_cache
        /\ FallbackSet =>
               /\ memory_cache' = DictPut(memory_cache, KeyOf(ret'.req), EntryOfSet)
               /\ redis_db' = redis_db
        /\ \A k \in DOMAIN redis_db' :
               (k \notin DOMAIN redis_db \/ redis_db'[k] # redis_db[k]) =>
                   PrimarySet /\ k = KeyOf(ret'.req)
        /\ \A k \in DOMAIN memory_cache' :
               (k \notin DOMAIN memory_cache \/ memory_cache'[k] # memory_cache[k]) =>
                   FallbackSet /\ k = KeyOf(ret'.req)
        /\ (enabled /\ GetStep /\ ret'.value # None) =>
               LET key == KeyOf(ret'.req)
                   b   == IF use_redis /\ ~ret'.primary_failed
                          THEN redis_db ELSE memory_cache
               IN  /\ Live(b, key)
                   /\ ret'.value = b[key].value
                   /\ (SetJustBefore(ret'.req)
                         /\ ret.primary_failed = ret'.primary_failed)
                          => ret'.value = ret.value
      ]_vars

\* a get returned the value of an earlier set of the key than the one made
\* just before it, which the other backend took
C37_Witness ==
    /\ ret.op = "get"
    /\ ret.value # None
    /\ ret.prior.op = "set"
    /\ ret.prior.ok
    /\ ret.prior.req = ret.req
    /\ ret.prior.value # ret.value
    /\ ret.prior.primary_failed # ret.primary_failed

====
